---------------------------- MODULE Spec2Model ----------------------------
(***************************************************************************)
(* Model of the Uniswap V3 tick / range / liquidity mathematics of the     *)
(* n8n-nodes-uniswap package.                                              *)
(*                                                                         *)
(* The functions are pure.  Each specification below draws the arguments   *)
(* of one call from a bounded set, applies the function as the source      *)
(* computes it and records the call and its result in the state; the       *)
(* caller then takes the result and is free to make the next call:         *)
(*   call : the operation called and its arguments (NoCall between calls)  *)
(*   ret  : what the call returned, a record (a function that returns a    *)
(*          number, a boolean or a string has it in a field of its own)    *)
(* The polling trigger keeps state between its polls; its variables are    *)
(* described with its model below.                                         *)
(***************************************************************************)
EXTENDS Integers, Sequences, FiniteSets, TLC

VARIABLES call, ret, params, now, subgraph, webhookData, emitted, lastPoll

vars == <<call, ret, params, now, subgraph, webhookData, emitted, lastPoll>>

\* the state of the polling trigger, which the pure functions leave alone
triggerVars == <<params, now, subgraph, webhookData, emitted, lastPoll>>

(***************************************************************************)
(* Bounds of the model (not program constants).                            *)
(***************************************************************************)
\* ticks are drawn from windows of this width at MIN_TICK, around 0 and at MAX_TICK
TickWindow == 130
\* validateTicks / isPositionInRange arguments: offsets and multiples up to this
ValWindow == 2
\* suggestTickRange: current ticks up to SuggestWindow from MIN_TICK, 0 and
\* MAX_TICK, volatilities 1 .. VolMax (in 10^-4), 1 .. MaxSqrtDays squared days
SuggestWindow == 2
VolMax == 2
MaxSqrtDays == 2
\* sqrt prices 1 .. SmallPriceMax and k * Q96 / PriceDenom for k in 1 .. PriceSteps
SmallPriceMax == 2
PriceSteps == 4
\* the denominator of the sampled fractions of Q96 (1/3, 2/3, 1, 4/3, ...)
PriceDenom == 3
\* amounts 0, 1 and (7k + 1) * 10^18 for k in 0 .. AmountSteps
AmountSteps == 0
\* liquidities 0, 1 and (7k + 1) * 10^18 for k in 0 .. LiquiditySteps
LiquiditySteps == 0
\* fee-growth accumulators k * 2^128 for k in 1 .. FeeGrowthSteps
FeeGrowthSteps == 1
\* fee values k * 250 for k in 0 .. FeeSteps
FeeSteps == 4
\* calculateTickRange: current ticks within SmallTickWindow of 0, percent
\* ranges 0.05% * k for k in 1 .. PercentSteps
SmallTickWindow == 2
PercentSteps == 2
\* priceToTick: prices -k / 10000 for k in 0 .. NonPositiveSteps
NonPositiveSteps == 20
\* capitalEfficiency: ticks within EfficiencyWindow of 0
EfficiencyWindow == 6
\* estimateAPR: fees24h = 250 * k and tvl = 5 * k for k in 0 .. AprSteps
AprSteps == 4
\* tickToPrice and tickToSqrtPriceX96: ticks within PowWindow of 0
PowWindow == 8
\* sqrtPriceX96ToTick: 2^96 + j and 2^96 + j * 2^80 for |j| <= SqrtOffsets
SqrtOffsets == 4
\* the powers of 2 up to 2^MaxBits are kept in a table (larger ones are
\* computed when asked for)
MaxBits == 200
\* encodePath: paths of at most MaxHops hops
MaxHops == 2
\* the trigger: the clock runs from 1 to MaxTime, the subgraph indexes at
\* most MaxEvents swaps, pools, mints and burns and MaxPositions positions,
\* the limits are 1 .. MaxLimit and the prices 0, 100, 129 and 105 - PriceRise
\* .. 105
MaxTime == 3
MaxEvents == 3
MaxPositions == 2
MaxLimit == 2
PriceRise == 1
\* execute: at most MaxItems input items
MaxItems == 3
\* concentrationFactor: ticks within ConcWindow of 0
ConcWindow == 4

(***************************************************************************)
(* Program constants: constants/tickMath.ts, constants/feeTiers.ts         *)
(***************************************************************************)
MIN_TICK == -887272
MAX_TICK == 887272

\* the out-of-range scenarios of the liquidity tests: the range
\* [ScenarioTickLower, ScenarioTickUpper] with the current tick below or above
ScenarioTickLower == -100
ScenarioTickUpper == 100
ScenarioTickAbove == 200
ScenarioTickBelow == -200

FeeTierSet == {100, 500, 3000, 10000}

\* FEE_TIERS[fee].tickSpacing; "Error" models `throw new Error('Invalid fee tier')`
\* FEE_TIERS[fee].tickSpacing
FEE_TIERS == [fee \in FeeTierSet |->
               CASE fee = 100 -> 1
                 [] fee = 500 -> 10
                 [] fee = 3000 -> 60
                 [] fee = 10000 -> 200]

\* throw new Error(`Invalid fee tier: ${fee}`), as the caller sees it
InvalidFeeTier(fee) == [threw |-> TRUE, error |-> "Invalid fee tier", fee |-> fee]

\* a faulty variant: an unknown tier gets the spacing of the 0.3% tier
getTickSpacing_DefaultSpacing(fee) ==
  IF fee \in DOMAIN FEE_TIERS
    THEN [threw |-> FALSE, tickSpacing |-> FEE_TIERS[fee]]
    ELSE [threw |-> FALSE, tickSpacing |-> FEE_TIERS[3000]]

\* the spacing in the field tickSpacing, or the error thrown
getTickSpacing(fee) ==
  IF fee \in DOMAIN FEE_TIERS
    THEN [threw |-> FALSE, tickSpacing |-> FEE_TIERS[fee]]
    ELSE InvalidFeeTier(fee)

TickSpacingSet == {FEE_TIERS[f] : f \in FeeTierSet}

(***************************************************************************)
(* JavaScript number primitives on the integers the tick functions use.    *)
(***************************************************************************)
Abs(x) == IF x < 0 THEN -x ELSE x

\* Math.round(n / d) for integers n and d > 0: the nearest integer, a tie
\* (n/d = k + 1/2) going to k + 1, i.e. floor(n/d + 1/2).  |n/d| < 2^21, so
\* the double quotient is a tie exactly when the rational one is.
\* a faulty variant: ties away from zero
MathRoundDiv_TiesAwayFromZero(n, d) ==
  IF n >= 0 THEN (2 * n + d) \div (2 * d) ELSE -((2 * (-n) + d) \div (2 * d))

MathRoundDiv(n, d) == (2 * n + d) \div (2 * d)

\* JavaScript's a % b: the remainder has the sign of the dividend (-0 === 0)
JsRem(a, b) == IF a >= 0 THEN a % Abs(b) ELSE -((-a) % Abs(b))

(***************************************************************************)
(* Arbitrary-precision integers (the JSBI library).                        *)
(*                                                                         *)
(* A magnitude is a sequence of limbs in radix LimbBase, least significant *)
(* limb first, without leading zero limbs (zero is the empty sequence).    *)
(* A JSBI value is [err, neg, mag]: err is set once an operation threw     *)
(* (RangeError: Division by zero), and stays set in what is computed from  *)
(* it, as the exception leaves the calling function.                       *)
(***************************************************************************)
LimbBase == 10000

Max(x, y) == IF x >= y THEN x ELSE y
Min(x, y) == IF x <= y THEN x ELSE y

Limb(a, i) == IF i <= Len(a) THEN a[i] ELSE 0

\* a without its leading zero limbs
NatNorm(a) ==
  IF \A i \in 1 .. Len(a) : a[i] = 0 THEN <<>>
  ELSE SubSeq(a, 1, CHOOSE k \in 1 .. Len(a) :
                      a[k] # 0 /\ \A j \in k + 1 .. Len(a) : a[j] = 0)

\* the magnitude of a natural number n < 2^31
NatOfInt(n) ==
  NatNorm(<<n % LimbBase, (n \div LimbBase) % LimbBase,
            n \div (LimbBase * LimbBase)>>)

\* -1, 0, 1 as a < b, a = b, a > b: decided by the most significant limb
\* in which a and b differ
NatCmp(a, b) ==
  IF Len(a) < Len(b) THEN -1
  ELSE IF Len(a) > Len(b) THEN 1
  ELSE IF a = b THEN 0
  ELSE LET k == CHOOSE k \in 1 .. Len(a) :
                  a[k] # b[k] /\ \A j \in k + 1 .. Len(a) : a[j] = b[j]
       IN  IF a[k] < b[k] THEN -1 ELSE 1

\* a + b (a, b may carry leading zero limbs).  The carry into limb i is 1
\* when a lower limb j overflows and the limbs between j and i pass it on.
NatAdd(a, b) ==
  LET n == Max(Len(a), Len(b))
      s == [i \in 1 .. n |-> Limb(a, i) + Limb(b, i)]
      c == [i \in 1 .. n + 1 |->
              IF \E j \in 1 .. i - 1 :
                   s[j] >= LimbBase /\ \A k \in j + 1 .. i - 1 : s[k] = LimbBase - 1
                THEN 1 ELSE 0]
  IN  NatNorm([i \in 1 .. n + 1 |->
                 IF i <= n THEN (s[i] + c[i]) % LimbBase ELSE c[i]])

\* a - b for a >= b.  The borrow from limb i is 1 when a lower limb j of a
\* is below that of b and the limbs between j and i are equal.
NatSub(a, b) ==
  LET w == [i \in 1 .. Len(a) |->
              IF \E j \in 1 .. i - 1 :
                   a[j] < Limb(b, j) /\ \A k \in j + 1 .. i - 1 : a[k] = Limb(b, k)
                THEN 1 ELSE 0]
  IN  NatNorm([i \in 1 .. Len(a) |->
                 (a[i] - Limb(b, i) - w[i] + LimbBase) % LimbBase])

\* a * m for 0 <= m <= LimbBase: the low halves of the limb products plus
\* their high halves one limb up
NatMulSmall(a, m) ==
  NatAdd([i \in 1 .. Len(a) |-> (a[i] * m) % LimbBase],
         <<0>> \o [i \in 1 .. Len(a) |-> (a[i] * m) \div LimbBase])

\* a * (the limbs j .. Len(b) of b)
RECURSIVE NatMulFrom(_, _, _)
NatMulFrom(a, b, j) ==
  IF j > Len(b) THEN <<>>
  ELSE LET rest == NatMulFrom(a, b, j + 1)
       IN  IF rest = <<>> THEN NatMulSmall(a, b[j])
           ELSE NatAdd(NatMulSmall(a, b[j]), <<0>> \o rest)

NatMul(a, b) ==
  IF Len(a) >= Len(b) THEN NatMulFrom(a, b, 1) ELSE NatMulFrom(b, a, 1)

\* One step of long division by b, whose top limb is at least LimbBase / 2:
\* the quotient limb of cur = r * LimbBase + limb by b, for r < b.  The two
\* top limbs of cur over the top limb of b overestimate it by at most 2.
NatQuotLimb(cur, b) ==
  LET n  == Len(b)
      qh == Min((Limb(cur, n + 1) * LimbBase + Limb(cur, n)) \div b[n],
                LimbBase - 1)
  IN  IF NatCmp(NatMulSmall(b, qh), cur) <= 0 THEN qh
      ELSE IF NatCmp(NatMulSmall(b, qh - 1), cur) <= 0 THEN qh - 1
      ELSE qh - 2

\* the quotient and remainder hi of the limbs above, taken one limb further
NatDivStep(hi, limb, b) ==
  IF hi.r = <<>> /\ limb = 0 THEN [q |-> <<0>> \o hi.q, r |-> <<>>]
  ELSE LET cur == <<limb>> \o hi.r
           d   == NatQuotLimb(cur, b)
       IN  [q |-> <<d>> \o hi.q, r |-> NatSub(cur, NatMulSmall(b, d))]

\* long division of the limbs i .. Len(a) of a by b: [q, r], the limbs of q
\* least significant first
RECURSIVE NatDivModFrom(_, _, _)
NatDivModFrom(a, b, i) ==
  IF Len(a) - i + 1 < Len(b)
    THEN [q |-> <<>>, r |-> NatNorm(SubSeq(a, i, Len(a)))]
  ELSE NatDivStep(NatDivModFrom(a, b, i + 1), a[i], b)

\* floor(a / b) for b # 0: a and b are first scaled so that the top limb of
\* b is at least LimbBase / 2, which leaves the quotient unchanged
NatDiv(a, b) ==
  LET f == LimbBase \div (b[Len(b)] + 1)
  IN  NatNorm(NatDivModFrom(NatMulSmall(a, f), NatMulSmall(b, f), 1).q)

\* --- JSBI values ---
JsbiOfNat(m) == [err |-> FALSE, neg |-> FALSE, mag |-> m]

\* what an operation that threw leaves behind
JsbiThrown == [err |-> TRUE, neg |-> FALSE, mag |-> <<>>]

JsbiSigned(neg, m) == [err |-> FALSE, neg |-> neg /\ m # <<>>, mag |-> m]

\* JSBI.BigInt(n) for a small number n >= 0
JsbiOfInt(n) == JsbiOfNat(NatOfInt(n))

JsbiNegate(x) == JsbiSigned(~x.neg, x.mag)

\* -1, 0, 1 as x < y, x = y, x > y
JsbiCmp(x, y) ==
  IF x.neg /\ ~y.neg THEN -1
  ELSE IF ~x.neg /\ y.neg THEN 1
  ELSE IF x.neg THEN NatCmp(y.mag, x.mag)
  ELSE NatCmp(x.mag, y.mag)

JsbiLessThan(x, y) == JsbiCmp(x, y) < 0
JsbiLessThanOrEqual(x, y) == JsbiCmp(x, y) <= 0

JsbiAdd(x, y) ==
  IF x.err \/ y.err THEN JsbiThrown
  ELSE IF x.neg = y.neg THEN JsbiSigned(x.neg, NatAdd(x.mag, y.mag))
  ELSE IF NatCmp(x.mag, y.mag) >= 0 THEN JsbiSigned(x.neg, NatSub(x.mag, y.mag))
  ELSE JsbiSigned(y.neg, NatSub(y.mag, x.mag))

JsbiSubtract(x, y) ==
  IF x.err \/ y.err THEN JsbiThrown ELSE JsbiAdd(x, JsbiNegate(y))

JsbiMultiply(x, y) ==
  IF x.err \/ y.err THEN JsbiThrown
  ELSE JsbiSigned(x.neg # y.neg, NatMul(x.mag, y.mag))

\* JSBI.divide: the quotient truncated toward zero; throws on a zero divisor
JsbiDivide(x, y) ==
  IF x.err \/ y.err THEN JsbiThrown
  ELSE IF y.mag = <<>> THEN JsbiThrown
  ELSE JsbiSigned(x.neg # y.neg, NatDiv(x.mag, y.mag))

\* JSBI.exponentiate(x, n) for a small exponent n >= 0
RECURSIVE JsbiExponentiate(_, _)
JsbiExponentiate(x, n) ==
  IF n = 0 THEN JsbiOfInt(1)
  ELSE LET h == JsbiExponentiate(x, n \div 2)
           sq == JsbiMultiply(h, h)
       IN  IF n % 2 = 0 THEN sq ELSE JsbiMultiply(sq, x)

\* --- decimal strings: sequences of one-character strings ---
DigitChars == <<"0", "1", "2", "3", "4", "5", "6", "7", "8", "9">>

DigitOfChar(c) == (CHOOSE i \in 1 .. 10 : DigitChars[i] = c) - 1

\* 1, 10, 100, 1000
Pow10(k) == CASE k = 0 -> 1 [] k = 1 -> 10 [] k = 2 -> 100 [] OTHER -> 1000

\* the number of decimal digits of a limb 0 < v < LimbBase
LimbWidth(v) == IF v >= 1000 THEN 4 ELSE IF v >= 100 THEN 3 ELSE IF v >= 10 THEN 2 ELSE 1

\* the top limb unpadded, then the lower limbs with four digits each
NatToString(a) ==
  IF a = <<>> THEN <<"0">>
  ELSE LET w == LimbWidth(a[Len(a)])
           n == w + 4 * (Len(a) - 1)
       IN  [p \in 1 .. n |->
              \* the digit of weight 10^e
              LET e == n - p
              IN  DigitChars[((a[(e \div 4) + 1] \div Pow10(e % 4)) % 10) + 1]]

\* x.toString(); a throw goes on to the caller
JsbiToString(x) ==
  IF x.err THEN <<"RangeError: Division by zero">>
  ELSE IF x.neg THEN <<"-">> \o NatToString(x.mag)
  ELSE NatToString(x.mag)

\* the value of the decimal digits str[from .. Len(str)]
NatParse(str, from) ==
  LET n == Len(str) - from + 1
  IN  NatNorm([l \in 1 .. (n + 3) \div 4 |->
        \* the four digits of weights 10^(4l-4) .. 10^(4l-1)
        LET D(e) == IF e < n THEN DigitOfChar(str[Len(str) - e]) ELSE 0
        IN  D(4 * l - 4) + 10 * D(4 * l - 3) + 100 * D(4 * l - 2)
              + 1000 * D(4 * l - 1)])

\* JSBI.BigInt(str) for a decimal string with an optional sign
JsbiBigInt(str) ==
  IF str # <<>> /\ str[1] = "-"
    THEN JsbiSigned(TRUE, NatParse(str, 2))
    ELSE JsbiSigned(FALSE, NatParse(str, 1))

\* the decimal string of a natural number n < 2^31
Dec(n) == NatToString(NatOfInt(n))

(***************************************************************************)
(* constants/tickMath.ts: fixed-point constants                            *)
(***************************************************************************)
Q96 == JsbiExponentiate(JsbiOfInt(2), 96)

MIN_SQRT_RATIO == JsbiBigInt(<<"4", "2", "9", "5", "1", "2", "8", "7", "3", "9">>)

(***************************************************************************)
(* constants/tickMath.ts                                                   *)
(***************************************************************************)
\* the value of `rounded` in nearestUsableTick
roundedTick(tick, tickSpacing) == MathRoundDiv(tick, tickSpacing) * tickSpacing

\* a faulty variant: the two clamps are left out
nearestUsableTick_NoClamp(tick, tickSpacing) == roundedTick(tick, tickSpacing)

nearestUsableTick(tick, tickSpacing) ==
  LET rounded == roundedTick(tick, tickSpacing)
  IN  IF rounded < MIN_TICK THEN MIN_TICK + tickSpacing
      ELSE IF rounded > MAX_TICK THEN MAX_TICK - tickSpacing
      ELSE rounded

isValidTick(tick) == tick >= MIN_TICK /\ tick <= MAX_TICK

isUsableTick(tick, tickSpacing) == JsRem(tick, tickSpacing) = 0

\* --- prices: exact fractions num / den of JSBI-sized integers, den > 0 ---
PriceOf(num, den) ==
  [num |-> IF num < 0 THEN JsbiNegate(JsbiOfInt(-num)) ELSE JsbiOfInt(num),
   den |-> JsbiOfInt(den)]

\* --- JavaScript numbers that are known only to within a rounding error ---
\* 1.0001 is no double, and Math.pow and Math.log are implementation-
\* approximated: a number they lead to is kept as the interval [lo, hi] of
\* exact fractions it lies in.  A relative error is counted in units of
\* 10^-15 (the relative spacing of the doubles is 2.2 * 10^-16).
ErrorUnit == JsbiExponentiate(JsbiOfInt(10), 15)

\* a number that is known exactly
Exactly(value) == [lo |-> value, hi |-> value]

\* a positive value times 1 + units * 10^-15, for units above or below 0
Widened(value, units) ==
  [num |-> JsbiMultiply(value.num, JsbiAdd(ErrorUnit, IF units < 0 THEN JsbiNegate(JsbiOfInt(-units))
                                            ELSE JsbiOfInt(units))),
   den |-> JsbiMultiply(value.den, ErrorUnit)]

\* the numbers within a relative error of units * 10^-15 of a positive value
Within(value, units) ==
  [lo |-> Widened(value, -units), hi |-> Widened(value, units)]

\* a < b and a <= b for fractions with positive denominators
FracLess(a, b) ==
  JsbiLessThan(JsbiMultiply(a.num, b.den), JsbiMultiply(b.num, a.den))

FracAtMost(a, b) ==
  JsbiLessThanOrEqual(JsbiMultiply(a.num, b.den), JsbiMultiply(b.num, a.den))

\* price * (1 - percentRange / 100) and price * (1 + percentRange / 100),
\* the factor being num / den for integers 0 < num and 0 < den: the factor
\* is computed in doubles, where the difference or sum with 1 is off by up to
\* 10^-15 absolutely, and the product is rounded once more
PriceTimes(price, num, den) ==
  [lo |-> Widened([num |-> JsbiMultiply(price.lo.num,
                             JsbiSubtract(JsbiMultiply(JsbiOfInt(num), ErrorUnit),
                                          JsbiOfInt(den))),
                   den |-> JsbiMultiply(price.lo.den,
                             JsbiMultiply(JsbiOfInt(den), ErrorUnit))], -1),
   hi |-> Widened([num |-> JsbiMultiply(price.hi.num,
                             JsbiAdd(JsbiMultiply(JsbiOfInt(num), ErrorUnit),
                                     JsbiOfInt(den))),
                   den |-> JsbiMultiply(price.hi.den,
                             JsbiMultiply(JsbiOfInt(den), ErrorUnit))], 1)]

\* the value of a magnitude below 10^8 (two limbs)
NatToInt(a) ==
  Limb(a, 1) + LimbBase * Limb(a, 2)

\* --- the numbers priceToTick can return ---
JsInt(n) == [kind |-> "finite", int |-> n]
JsNegInfinity == [kind |-> "-Infinity"]
JsNaN == [kind |-> "NaN"]

\* --- quotients of integers as JavaScript numbers, kept as exact fractions ---
JsPosInfinity == [kind |-> "Infinity"]

\* n / d: a division by 0 gives NaN for 0 / 0 and an infinity of the sign of
\* n otherwise, and does not throw
JsDivide(n, d) ==
  IF d = 0
    THEN IF n = 0 THEN JsNaN ELSE IF n > 0 THEN JsPosInfinity ELSE JsNegInfinity
    ELSE [kind |-> "finite", num |-> n, den |-> d]

\* x * k for an integer k > 0
JsTimes(x, k) ==
  IF x.kind = "finite" THEN [kind |-> "finite", num |-> x.num * k, den |-> x.den]
  ELSE x

\* the fraction x has the value n / d (d # 0)
JsIsQuotient(x, n, d) ==
  /\ x.kind = "finite"
  /\ x.den # 0
  /\ x.num * d = n * x.den

\* 1.0001^tick as an exact fraction
TickPower(tick) ==
  [num |-> JsbiExponentiate(JsbiOfInt(IF tick >= 0 THEN 10001 ELSE 10000), Abs(tick)),
   den |-> JsbiExponentiate(JsbiOfInt(IF tick >= 0 THEN 10000 ELSE 10001), Abs(tick))]

\* a faulty variant: the sign of the tick is dropped
tickToPrice_OfMagnitude(tick) ==
  IF tick = 0 THEN Exactly(PriceOf(1, 1))
  ELSE Within(TickPower(Abs(tick)), Abs(tick) + 1)

\* tickToPrice(tick) = Math.pow(TICK_BASE, tick): 1 exactly for tick 0 (the
\* language fixes x^0), and otherwise a double near 1.0001^tick: TICK_BASE
\* is the double next to 1.0001, 1.1 * 10^-17 below it, which the power
\* multiplies by |tick|, and Math.pow adds its own error
tickToPrice(tick) ==
  IF tick = 0 THEN Exactly(PriceOf(1, 1))
  ELSE Within(TickPower(tick), Abs(tick) + 1)

\* t can be Math.floor(Math.log(x) / Math.log(TICK_BASE)) for a number x of
\* the interval: 1.0001^t <= x < 1.0001^(t + 1) to within the error of the
\* quotient, which is that of TICK_BASE times |t| and that of Math.log
TickFits(t, price) ==
  /\ FracAtMost(TickPower(t), Widened(price.hi, Abs(t) + 2))
  /\ FracLess(Widened(price.lo, -(Abs(t) + 2)), TickPower(t + 1))

\* |Math.log(x) / Math.log(1.0001)| stays below this for every double x > 0
\* (the largest is 1.8 * 10^308, the smallest 4.9 * 10^-324)
MaxLogTick == 7500000

\* a bound of the search for |t|: m + 3, where |t| <= m + 1 for a number
\* 1 + m / 10001 or its inverse, as ln(1 + x) <= x and 1 / ln(1.0001) < 10001
SearchBound(m) ==
  IF Len(m.mag) <= 2 THEN Min(NatToInt(m.mag) + 3, MaxLogTick) ELSE MaxLogTick

\* the greatest t in lo .. hi with 1.0001^t <= x, where 1.0001^lo <= x
RECURSIVE FloorTickBetween(_, _, _)
FloorTickBetween(x, lo, hi) ==
  IF lo >= hi THEN lo
  ELSE IF FracAtMost(TickPower((lo + hi + 1) \div 2), x)
    THEN FloorTickBetween(x, (lo + hi + 1) \div 2, hi)
  ELSE FloorTickBetween(x, lo, ((lo + hi + 1) \div 2) - 1)

\* the values Math.floor(Math.log(x) / Math.log(TICK_BASE)) can have for a
\* number x > 0 of the interval: one value, or two next to each other where
\* the interval comes within the rounding error of a power of 1.0001.  The
\* rounding error moves the floor of the exact logarithm by one at most, so
\* the values lie from one below that of price.lo to one above that of
\* price.hi
FloorLogTick(price) ==
  UNION {{t \in (FloorTickBetween(price.lo, -bound.down, bound.up) - 1)
                  .. (FloorTickBetween(price.hi, -bound.down, bound.up) + 1)
            : TickFits(t, price)}
           : bound \in {[up |-> IF FracLess(PriceOf(1, 1), price.hi)
                                  THEN SearchBound(JsbiDivide(JsbiMultiply(JsbiSubtract(price.hi.num, price.hi.den),
                                                                          JsbiOfInt(10001)), price.hi.den))
                                  ELSE 1,
                         down |-> IF FracLess(price.lo, PriceOf(1, 1))
                                    THEN SearchBound(JsbiDivide(JsbiMultiply(JsbiSubtract(price.lo.den, price.lo.num),
                                                                            JsbiOfInt(10001)), price.lo.num))
                                    ELSE 1]}}

\* priceToTick(price) = Math.floor(Math.log(price) / Math.log(TICK_BASE)),
\* the values it can have for a number of the interval: Math.log is NaN
\* below 0, -Infinity at 0 and 0 at 1, and Math.floor keeps all three
priceToTick(price) ==
  UNION {IF p.lo.num.neg THEN {JsNaN}
         ELSE IF p.lo.num.mag = <<>> THEN {JsNegInfinity}
         ELSE IF p.lo.num = p.lo.den /\ p.hi.num = p.hi.den THEN {JsInt(0)}
         ELSE {JsInt(t) : t \in FloorLogTick(p)}
           : p \in {price}}

(***************************************************************************)
(* utils/tickUtils.ts                                                      *)
(***************************************************************************)
\* calculateTickRange for a percentRange of percentRangeCenti / 100 with
\* 0 < percentRange < 100 (both prices positive): the ranges it can return,
\* or the throw of getTickSpacing, which leaves the function
calculateTickRange(currentTick, percentRangeCenti, feeTier) ==
  IF getTickSpacing(feeTier).threw THEN {getTickSpacing(feeTier)}
  ELSE {[tickLower |-> nearestUsableTick(lower.int, getTickSpacing(feeTier).tickSpacing),
         tickUpper |-> nearestUsableTick(upper.int, getTickSpacing(feeTier).tickSpacing)]
          : lower \in priceToTick(PriceTimes(tickToPrice(currentTick),
                                             10000 - percentRangeCenti, 10000)),
            upper \in priceToTick(PriceTimes(tickToPrice(currentTick),
                                             10000 + percentRangeCenti, 10000))}

\* price * Math.pow(10, decimals1 - decimals0): Math.pow(10, 0) is 1 and the
\* product the price itself; otherwise the power and the product are rounded
DecimalAdjusted(price, decimals0, decimals1) ==
  IF decimals1 = decimals0 THEN Exactly(price)
  ELSE Within([num |-> JsbiMultiply(price.num,
                         JsbiExponentiate(JsbiOfInt(10), Max(decimals1 - decimals0, 0))),
               den |-> JsbiMultiply(price.den,
                         JsbiExponentiate(JsbiOfInt(10), Max(decimals0 - decimals1, 0)))], 2)

\* a faulty variant: the ratio is inverted
capitalEfficiency_Inverted(tickLower, tickUpper) ==
  LET fullRange == MAX_TICK - MIN_TICK
      positionRange == tickUpper - tickLower
  IN  JsDivide(positionRange, fullRange)

\* capitalEfficiency: fullRange / positionRange as a JavaScript number
capitalEfficiency(tickLower, tickUpper) ==
  LET fullRange == MAX_TICK - MIN_TICK
      positionRange == tickUpper - tickLower
  IN  JsDivide(fullRange, positionRange)

\* getTicksFromPriceRange for positive prices: the ranges it can return, or
\* the throw of getTickSpacing, which leaves the function
getTicksFromPriceRange(priceLower, priceUpper, feeTier, decimals0, decimals1) ==
  IF getTickSpacing(feeTier).threw THEN {getTickSpacing(feeTier)}
  ELSE {[tickLower |-> nearestUsableTick(lower.int, getTickSpacing(feeTier).tickSpacing),
         tickUpper |-> nearestUsableTick(upper.int, getTickSpacing(feeTier).tickSpacing)]
          : lower \in priceToTick(DecimalAdjusted(priceLower, decimals0, decimals1)),
            upper \in priceToTick(DecimalAdjusted(priceUpper, decimals0, decimals1))}

\* a throw of getTickSpacing leaves the function
getFullRangeTicks(feeTier) ==
  LET spacing == getTickSpacing(feeTier)
      tickSpacing == spacing.tickSpacing
  IN  IF spacing.threw THEN spacing
      ELSE [tickLower |-> nearestUsableTick(MIN_TICK, tickSpacing),
            tickUpper |-> nearestUsableTick(MAX_TICK, tickSpacing)]

\* a faulty variant: the upper bound is inclusive
isPositionInRange_Closed(tickLower, tickUpper, currentTick) ==
  currentTick >= tickLower /\ currentTick <= tickUpper

isPositionInRange(tickLower, tickUpper, currentTick) ==
  currentTick >= tickLower /\ currentTick < tickUpper

\* a faulty variant: the bounds check forgets tickUpper
validateTicks_LowerBoundOnly(tickLower, tickUpper, tickSpacing) ==
  IF tickLower >= tickUpper
    THEN [valid |-> FALSE, error |-> "tickLower must be less than tickUpper"]
  ELSE IF tickLower < MIN_TICK
    THEN [valid |-> FALSE, error |-> "Ticks out of valid range"]
  ELSE IF JsRem(tickLower, tickSpacing) # 0
    THEN [valid |-> FALSE, error |-> "tickLower not aligned to tick spacing"]
  ELSE IF JsRem(tickUpper, tickSpacing) # 0
    THEN [valid |-> FALSE, error |-> "tickUpper not aligned to tick spacing"]
  ELSE [valid |-> TRUE, error |-> ""]

\* the result {valid, error?}; error is "" when the source leaves it out
validateTicks(tickLower, tickUpper, tickSpacing) ==
  IF tickLower >= tickUpper
    THEN [valid |-> FALSE, error |-> "tickLower must be less than tickUpper"]
  ELSE IF tickLower < MIN_TICK \/ tickUpper > MAX_TICK
    THEN [valid |-> FALSE, error |-> "Ticks out of valid range"]
  ELSE IF JsRem(tickLower, tickSpacing) # 0
    THEN [valid |-> FALSE, error |-> "tickLower not aligned to tick spacing"]
  ELSE IF JsRem(tickUpper, tickSpacing) # 0
    THEN [valid |-> FALSE, error |-> "tickUpper not aligned to tick spacing"]
  ELSE [valid |-> TRUE, error |-> ""]

\* Fixed-point units of the volatility inputs of suggestTickRange: the
\* volatility is volatilityBps / 10^4, the confidence level confidencePct /
\* 100, a z-score zMilli / 10^3 and the expected move a number of 10^-7.
MoveDenom == 10000000

\* a faulty variant: a level that is not in the table gets the lowest z-score
zScoreMilli_DefaultLowest(confidencePct) ==
  CASE confidencePct = 90 -> 1645
    [] confidencePct = 95 -> 1960
    [] confidencePct = 99 -> 2576
    [] OTHER -> 1645

\* zScores[confidenceLevel] || 1.96
zScoreMilli(confidencePct) ==
  CASE confidencePct = 90 -> 1645
    [] confidencePct = 95 -> 1960
    [] confidencePct = 99 -> 2576
    [] OTHER -> 1960

\* Math.sqrt(holdingPeriodDays) for a square number of days
SqrtDays(holdingPeriodDays) ==
  CHOOSE r \in 0 .. holdingPeriodDays : r * r = holdingPeriodDays

\* volatility * Math.sqrt(holdingPeriodDays) * zScore, in 10^-7
expectedMove(volatilityBps, holdingPeriodDays, confidencePct) ==
  volatilityBps * SqrtDays(holdingPeriodDays) * zScoreMilli(confidencePct)

\* Math.ceil(Math.abs(priceToTick(1 + expectedMove) - priceToTick(1))), the
\* values it can have: the product of the three doubles and the sum with 1
\* are rounded
tickMoveFrom(move) ==
  {Abs(moved.int - still.int)
     : moved \in priceToTick(Within(PriceOf(MoveDenom + move, MoveDenom), 2)),
       still \in priceToTick(Exactly(PriceOf(1, 1)))}

\* the expected moves of the calls that are tried, in 10^-7
MoveInputs ==
  {v * r * z : v \in 1 .. VolMax, r \in 1 .. MaxSqrtDays, z \in {1645, 1960, 2576}}

\* their tick moves, computed once
TickMoves == [move \in MoveInputs |-> tickMoveFrom(move)]

\* tickMove of suggestTickRange for an expected move
tickMoveOf(move) ==
  IF move \in MoveInputs THEN TickMoves[move] ELSE tickMoveFrom(move)

\* the ranges suggestTickRange can return, or the throw of getTickSpacing
suggestTickRange(currentTick, volatilityBps, holdingPeriodDays, confidencePct, feeTier) ==
  IF getTickSpacing(feeTier).threw THEN {getTickSpacing(feeTier)}
  ELSE {[tickLower |-> nearestUsableTick(currentTick - tickMove,
                                         getTickSpacing(feeTier).tickSpacing),
         tickUpper |-> nearestUsableTick(currentTick + tickMove,
                                         getTickSpacing(feeTier).tickSpacing)]
          : tickMove \in tickMoveOf(expectedMove(volatilityBps, holdingPeriodDays,
                                                 confidencePct))}

(***************************************************************************)
(* utils/liquidityUtils.ts                                                 *)
(***************************************************************************)
\* a faulty variant: the division by Q96 is forgotten
getLiquidityForAmount0_NoQ96(sqrtPriceAX96, sqrtPriceBX96, amount0) ==
  JsbiDivide(JsbiMultiply(amount0, JsbiMultiply(sqrtPriceAX96, sqrtPriceBX96)),
             JsbiSubtract(sqrtPriceBX96, sqrtPriceAX96))

getLiquidityForAmount0(sqrtPriceAX96, sqrtPriceBX96, amount0) ==
  LET intermediate == JsbiDivide(JsbiMultiply(sqrtPriceAX96, sqrtPriceBX96), Q96)
  IN  JsbiDivide(JsbiMultiply(amount0, intermediate),
                 JsbiSubtract(sqrtPriceBX96, sqrtPriceAX96))

getLiquidityForAmount1(sqrtPriceAX96, sqrtPriceBX96, amount1) ==
  JsbiDivide(JsbiMultiply(amount1, Q96),
             JsbiSubtract(sqrtPriceBX96, sqrtPriceAX96))

getAmount0ForLiquidity(sqrtPriceAX96, sqrtPriceBX96, liquidity) ==
  LET diff == JsbiSubtract(sqrtPriceBX96, sqrtPriceAX96)
  IN  JsbiDivide(JsbiMultiply(JsbiMultiply(liquidity, diff), Q96),
                 JsbiMultiply(sqrtPriceAX96, sqrtPriceBX96))

\* a faulty variant: the price difference is taken the wrong way round
getAmount1ForLiquidity_ReversedDiff(sqrtPriceAX96, sqrtPriceBX96, liquidity) ==
  LET diff == JsbiSubtract(sqrtPriceAX96, sqrtPriceBX96)
  IN  JsbiDivide(JsbiMultiply(liquidity, diff), Q96)

getAmount1ForLiquidity(sqrtPriceAX96, sqrtPriceBX96, liquidity) ==
  LET diff == JsbiSubtract(sqrtPriceBX96, sqrtPriceAX96)
  IN  JsbiDivide(JsbiMultiply(liquidity, diff), Q96)

\* a faulty variant: the larger candidate
inRangeLiquidity_Max(liquidity0, liquidity1) ==
  IF JsbiLessThan(liquidity0, liquidity1) THEN liquidity1 ELSE liquidity0

\* a faulty variant: the comparison is forgotten
inRangeLiquidity_First(liquidity0, liquidity1) == liquidity0

\* the smaller of the two candidate liquidities of the in-range branch
inRangeLiquidity(liquidity0, liquidity1) ==
  IF JsbiLessThan(liquidity0, liquidity1) THEN liquidity0 ELSE liquidity1

\* the arguments and the result are decimal strings
calculateLiquidityFromAmounts(sqrtPriceX96, sqrtPriceAX96, sqrtPriceBX96, amount0, amount1) ==
  LET sqrtPrice  == JsbiBigInt(sqrtPriceX96)
      sqrtPriceA == JsbiBigInt(sqrtPriceAX96)
      sqrtPriceB == JsbiBigInt(sqrtPriceBX96)
      amt0 == JsbiBigInt(amount0)
      amt1 == JsbiBigInt(amount1)
      liquidity ==
        IF JsbiLessThanOrEqual(sqrtPrice, sqrtPriceA)
          THEN getLiquidityForAmount0(sqrtPriceA, sqrtPriceB, amt0)
        ELSE IF JsbiLessThan(sqrtPrice, sqrtPriceB)
          THEN inRangeLiquidity(
                 getLiquidityForAmount0(sqrtPrice, sqrtPriceB, amt0),
                 getLiquidityForAmount1(sqrtPriceA, sqrtPrice, amt1))
        ELSE getLiquidityForAmount1(sqrtPriceA, sqrtPriceB, amt1)
  IN  JsbiToString(liquidity)

\* a faulty variant: the two out-of-range branches are exchanged
calculateAmountsFromLiquidity_Swapped(sqrtPriceX96, sqrtPriceAX96, sqrtPriceBX96, liquidity) ==
  LET sqrtPrice  == JsbiBigInt(sqrtPriceX96)
      sqrtPriceA == JsbiBigInt(sqrtPriceAX96)
      sqrtPriceB == JsbiBigInt(sqrtPriceBX96)
      liq == JsbiBigInt(liquidity)
      amounts ==
        IF JsbiLessThanOrEqual(sqrtPrice, sqrtPriceA)
          THEN [amount0 |-> JsbiOfInt(0),
                amount1 |-> getAmount1ForLiquidity(sqrtPriceA, sqrtPriceB, liq)]
        ELSE IF JsbiLessThan(sqrtPrice, sqrtPriceB)
          THEN [amount0 |-> getAmount0ForLiquidity(sqrtPrice, sqrtPriceB, liq),
                amount1 |-> getAmount1ForLiquidity(sqrtPriceA, sqrtPrice, liq)]
        ELSE [amount0 |-> getAmount0ForLiquidity(sqrtPriceA, sqrtPriceB, liq),
              amount1 |-> JsbiOfInt(0)]
      thrown == amounts.amount0.err \/ amounts.amount1.err
  IN  [amount0 |-> JsbiToString(IF thrown THEN JsbiThrown ELSE amounts.amount0),
       amount1 |-> JsbiToString(IF thrown THEN JsbiThrown ELSE amounts.amount1)]

\* a throw in either amount leaves the function: both fields carry it
calculateAmountsFromLiquidity(sqrtPriceX96, sqrtPriceAX96, sqrtPriceBX96, liquidity) ==
  LET sqrtPrice  == JsbiBigInt(sqrtPriceX96)
      sqrtPriceA == JsbiBigInt(sqrtPriceAX96)
      sqrtPriceB == JsbiBigInt(sqrtPriceBX96)
      liq == JsbiBigInt(liquidity)
      amounts ==
        IF JsbiLessThanOrEqual(sqrtPrice, sqrtPriceA)
          THEN [amount0 |-> getAmount0ForLiquidity(sqrtPriceA, sqrtPriceB, liq),
                amount1 |-> JsbiOfInt(0)]
        ELSE IF JsbiLessThan(sqrtPrice, sqrtPriceB)
          THEN [amount0 |-> getAmount0ForLiquidity(sqrtPrice, sqrtPriceB, liq),
                amount1 |-> getAmount1ForLiquidity(sqrtPriceA, sqrtPrice, liq)]
        ELSE [amount0 |-> JsbiOfInt(0),
              amount1 |-> getAmount1ForLiquidity(sqrtPriceA, sqrtPriceB, liq)]
      thrown == amounts.amount0.err \/ amounts.amount1.err
  IN  [amount0 |-> JsbiToString(IF thrown THEN JsbiThrown ELSE amounts.amount0),
       amount1 |-> JsbiToString(IF thrown THEN JsbiThrown ELSE amounts.amount1)]

\* 2^128, the unit of the fee-growth accumulators
Q128 == JsbiExponentiate(JsbiOfInt(2), 128)

\* 2^256, the modulus of the accumulators on chain
Q256 == JsbiExponentiate(JsbiOfInt(2), 256)

\* x reduced modulo 2^256 into [0, 2^256)
Wrap256(x) ==
  LET r == JsbiSubtract(x, JsbiMultiply(JsbiDivide(x, Q256), Q256))
  IN  IF r.neg THEN JsbiAdd(r, Q256) ELSE r

\* a faulty variant: the differences are reduced modulo 2^256
calculateFees_Wrapped(feeGrowthInside0X128, feeGrowthInside1X128, liquidity, feeGrowthInside0LastX128, feeGrowthInside1LastX128) ==
  LET feeGrowth0 == Wrap256(JsbiSubtract(JsbiBigInt(feeGrowthInside0X128),
                                         JsbiBigInt(feeGrowthInside0LastX128)))
      feeGrowth1 == Wrap256(JsbiSubtract(JsbiBigInt(feeGrowthInside1X128),
                                         JsbiBigInt(feeGrowthInside1LastX128)))
      liq == JsbiBigInt(liquidity)
  IN  [fees0 |-> JsbiToString(JsbiDivide(JsbiMultiply(feeGrowth0, liq), Q128)),
       fees1 |-> JsbiToString(JsbiDivide(JsbiMultiply(feeGrowth1, liq), Q128))]

calculateFees(feeGrowthInside0X128, feeGrowthInside1X128, liquidity, feeGrowthInside0LastX128, feeGrowthInside1LastX128) ==
  LET feeGrowth0 == JsbiSubtract(JsbiBigInt(feeGrowthInside0X128),
                                 JsbiBigInt(feeGrowthInside0LastX128))
      feeGrowth1 == JsbiSubtract(JsbiBigInt(feeGrowthInside1X128),
                                 JsbiBigInt(feeGrowthInside1LastX128))
      liq == JsbiBigInt(liquidity)
      fees0 == JsbiDivide(JsbiMultiply(feeGrowth0, liq), Q128)
      fees1 == JsbiDivide(JsbiMultiply(feeGrowth1, liq), Q128)
  IN  [fees0 |-> JsbiToString(fees0), fees1 |-> JsbiToString(fees1)]

\* a faulty variant: the test of tvl is forgotten
estimateAPR_NoGuard(fees24h, tvl) ==
  JsTimes(JsTimes(JsDivide(fees24h, tvl), 365), 100)

\* estimateAPR for integer fees24h and tvl; the quotient is kept exact
estimateAPR(fees24h, tvl) ==
  IF tvl = 0 THEN JsDivide(0, 1)
  ELSE LET dailyReturn == JsDivide(fees24h, tvl)
       IN  JsTimes(JsTimes(dailyReturn, 365), 100)

(***************************************************************************)
(* utils/pathUtils.ts: strings are sequences of one-character strings.     *)
(***************************************************************************)
\* the characters of a string constant
Chars(str) == [i \in 1 .. Len(str) |-> SubSeq(str, i, i)]

HexChars ==
  <<"0", "1", "2", "3", "4", "5", "6", "7", "8", "9", "a", "b", "c", "d", "e", "f">>

\* String.prototype.toLowerCase on the characters of a hex string with prefix
LowerChar(c) ==
  CASE c = "A" -> "a" [] c = "B" -> "b" [] c = "C" -> "c" [] c = "D" -> "d"
    [] c = "E" -> "e" [] c = "F" -> "f" [] c = "X" -> "x" [] OTHER -> c

toLowerCase(str) == [i \in 1 .. Len(str) |-> LowerChar(str[i])]

\* str.slice(start) and str.slice(start, end) for 0 <= start <= end
Slice(str, start) == SubSeq(str, start + 1, Len(str))
SliceTo(str, start, end) == SubSeq(str, start + 1, Min(end, Len(str)))

\* 16^k
RECURSIVE Pow16(_)
Pow16(k) == IF k = 0 THEN 1 ELSE 16 * Pow16(k - 1)

\* n.toString(16) for an integer 0 <= n < 2^28
ToHexString(n) ==
  LET width == IF n = 0 THEN 1 ELSE Cardinality({k \in 0 .. 6 : Pow16(k) <= n})
  IN  [i \in 1 .. width |-> HexChars[((n \div Pow16(width - i)) % 16) + 1]]

\* str.padStart(6, '0')
PadStart6(str) ==
  IF Len(str) >= 6 THEN str ELSE [i \in 1 .. 6 - Len(str) |-> "0"] \o str

\* parseInt(str, 16) for a non-empty string of at most 7 lower-case hex digits
ParseHex(str) ==
  LET D(i) == (CHOOSE k \in 1 .. 16 : HexChars[k] = str[i]) - 1
      RECURSIVE Sum(_)
      Sum(i) == IF i = 0 THEN 0 ELSE 16 * Sum(i - 1) + D(i)
  IN  Sum(Len(str))

\* the loop of encodePath over the hops from index i on
RECURSIVE EncodeHops(_, _, _)
EncodeHops(path, i, encoded) ==
  IF i > Len(path) THEN encoded
  ELSE LET hop == path[i]
           feeHex == PadStart6(ToHexString(hop.fee))
       IN  EncodeHops(path, i + 1,
                      encoded \o feeHex \o toLowerCase(Slice(hop.tokenOut, 2)))

\* a faulty variant: the fee is not padded to 3 bytes
RECURSIVE EncodeHops_NoPad(_, _, _)
EncodeHops_NoPad(path, i, encoded) ==
  IF i > Len(path) THEN encoded
  ELSE LET hop == path[i]
           feeHex == ToHexString(hop.fee)
       IN  EncodeHops_NoPad(path, i + 1,
                            encoded \o feeHex \o toLowerCase(Slice(hop.tokenOut, 2)))

\* a faulty variant: encodePath without the padding of the fee
encodePath_NoPad(path) ==
  IF Len(path) = 0 THEN [threw |-> TRUE, error |-> "Path cannot be empty"]
  ELSE [threw |-> FALSE,
        encoded |-> EncodeHops_NoPad(path, 1, toLowerCase(path[1].tokenIn))]

encodePath(path) ==
  IF Len(path) = 0 THEN [threw |-> TRUE, error |-> "Path cannot be empty"]
  ELSE [threw |-> FALSE,
        encoded |-> EncodeHops(path, 1, toLowerCase(path[1].tokenIn))]

\* the loop of decodePath: data is what is left of the string
RECURSIVE DecodeHops(_, _, _)
DecodeHops(data, tokenIn, path) ==
  IF Len(data) >= 46
    THEN LET fee == ParseHex(SliceTo(data, 0, 6))
             tokenOut == <<"0", "x">> \o SliceTo(Slice(data, 6), 0, 40)
         IN  DecodeHops(Slice(Slice(data, 6), 40), tokenOut,
                        Append(path, [tokenIn |-> tokenIn, tokenOut |-> tokenOut,
                                      fee |-> fee]))
    ELSE path

decodePath(encodedPath) ==
  LET startsWith0x == Len(encodedPath) >= 2 /\ SubSeq(encodedPath, 1, 2) = <<"0", "x">>
      data == IF startsWith0x THEN Slice(encodedPath, 2) ELSE encodedPath
      tokenIn == <<"0", "x">> \o SliceTo(data, 0, 40)
  IN  DecodeHops(Slice(data, 40), tokenIn, <<>>)

(***************************************************************************)
(* Argument sets.                                                          *)
(***************************************************************************)
\* valid ticks: the two ends of the tick range and the neighbourhood of 0
TickInputs ==
  (MIN_TICK .. MIN_TICK + TickWindow) \cup ((-TickWindow) .. TickWindow)
    \cup (MAX_TICK - TickWindow .. MAX_TICK)

\* ticks, valid or not, aligned or not, for validateTicks and the range test
ValTickInputs ==
  UNION {{a + o : o \in (-ValWindow) .. ValWindow} : a \in {MIN_TICK, 0, MAX_TICK}}
    \cup {k * s : k \in (-ValWindow) .. ValWindow, s \in TickSpacingSet}

\* current ticks at both ends of the tick range and around 0
CurrentTickInputs ==
  (MIN_TICK .. MIN_TICK + SuggestWindow) \cup ((-SuggestWindow) .. SuggestWindow)
    \cup (MAX_TICK - SuggestWindow .. MAX_TICK)

\* the three confidence levels of the table and one that is not in it
ConfidenceInputs == {90, 95, 99, 80}

\* sqrt prices (Q64.96, decimal strings): the smallest values, where the
\* divisions by Q96 round to zero, MIN_SQRT_RATIO and the next value, and
\* fractions k / PriceDenom of Q96 with their neighbours
SqrtPriceInputs ==
  {Dec(k) : k \in 1 .. SmallPriceMax}
    \cup {JsbiToString(MIN_SQRT_RATIO),
          JsbiToString(JsbiAdd(MIN_SQRT_RATIO, JsbiOfInt(1)))}
    \cup {JsbiToString(JsbiDivide(JsbiMultiply(Q96, JsbiOfInt(k)), JsbiOfInt(PriceDenom)))
            : k \in 1 .. PriceSteps}
    \cup {JsbiToString(JsbiAdd(Q96, JsbiOfInt(1)))}

\* token amounts (decimal strings): 0, 1 and multiples of 10^18, one token
\* of 18 decimals
AmountInputs ==
  {Dec(0), Dec(1)}
    \cup {JsbiToString(JsbiMultiply(JsbiOfInt(k * 7 + 1),
                                    JsbiExponentiate(JsbiOfInt(10), 18)))
            : k \in 0 .. AmountSteps}

\* A square-root price to try the liquidity functions on: the Q64.96 value
\* 2^96 * 1.0001^(tick / 2) of an even tick, rounded down, as a decimal
\* string.  It is an input such as a pool reports, computed exactly; it is
\* not the result of tickToSqrtPriceX96, which works in doubles (below).
SqrtPriceAtEvenTick(tick) ==
  JsbiToString(JsbiDivide(JsbiMultiply(Q96, TickPower(tick \div 2).num),
                          TickPower(tick \div 2).den))

\* the square-root prices at the ticks of the out-of-range scenarios and at 0
SqrtPriceBelow == SqrtPriceAtEvenTick(ScenarioTickBelow)
SqrtPriceLower == SqrtPriceAtEvenTick(ScenarioTickLower)
SqrtPriceUpper == SqrtPriceAtEvenTick(ScenarioTickUpper)
SqrtPriceAbove == SqrtPriceAtEvenTick(ScenarioTickAbove)

TickSqrtPriceInputs ==
  {SqrtPriceBelow, SqrtPriceLower, SqrtPriceAtEvenTick(0), SqrtPriceUpper,
   SqrtPriceAbove}

(***************************************************************************)
(* constants/tokens.ts: conversions between ticks and Q64.96 square-root   *)
(* prices, which go through JavaScript numbers.                            *)
(***************************************************************************)
\* a thrown SyntaxError of JSBI.BigInt, as the caller sees it
BigIntSyntaxError == [threw |-> TRUE, error |-> "SyntaxError"]

\* Number.prototype.toString of a non-negative integer-valued number writes
\* decimal digits only below 10^21; from 10^21 on it writes a mantissa with a
\* decimal point and an exponent ("7.922816251426434e+28")
NumberToStringIsDigits(x) ==
  JsbiLessThan(x, JsbiExponentiate(JsbiOfInt(10), 21))

\* tickToSqrtPriceX96 for an even tick:
\* JSBI.BigInt(Math.floor(Math.sqrt(price) * 2^96).toString()), what it can
\* come to.  The product is a double near 2^96 * 1.0001^(tick / 2) (the real
\* value, TickPower(tick / 2) times 2^96), off by the error of Math.pow and
\* two roundings; JSBI.BigInt throws a SyntaxError for a string that is no
\* integer literal, and otherwise the result is an integer from atLeast to
\* atMost.
tickToSqrtPriceX96(tick) ==
  UNION {(IF NumberToStringIsDigits(lowest)
            THEN {[threw |-> FALSE,
                   atLeast |-> JsbiToString(lowest),
                   atMost |-> JsbiToString(
                     IF NumberToStringIsDigits(highest) THEN highest
                     ELSE JsbiSubtract(JsbiExponentiate(JsbiOfInt(10), 21), JsbiOfInt(1)))]}
            ELSE {})
           \cup (IF NumberToStringIsDigits(highest) THEN {}
                 ELSE {BigIntSyntaxError})
           : lowest \in {JsbiDivide(JsbiMultiply(JsbiMultiply(Q96, real.num),
                                                 JsbiSubtract(ErrorUnit, JsbiOfInt(Abs(tick) + 2))),
                                    JsbiMultiply(real.den, ErrorUnit))
                           : real \in {TickPower(tick \div 2)}},
             highest \in {JsbiAdd(JsbiDivide(JsbiMultiply(JsbiMultiply(Q96, real.num),
                                                          JsbiAdd(ErrorUnit, JsbiOfInt(Abs(tick) + 2))),
                                             JsbiMultiply(real.den, ErrorUnit)),
                                  JsbiOfInt(1))
                            : real \in {TickPower(tick \div 2)}}}

\* the powers of 2 up to 2^MaxBits, computed once
TwoTo == [k \in 0 .. MaxBits |-> JsbiExponentiate(JsbiOfInt(2), k)]

\* 2^k for every k >= 0
TwoPower(k) == IF k <= MaxBits THEN TwoTo[k] ELSE JsbiExponentiate(JsbiOfInt(2), k)

\* the least k in lo .. hi with x < 2^k (hi, if there is none)
RECURSIVE BitsBetween(_, _, _)
BitsBetween(x, lo, hi) ==
  IF lo >= hi THEN hi
  ELSE IF JsbiLessThan(x, TwoPower((lo + hi) \div 2))
    THEN BitsBetween(x, lo, (lo + hi) \div 2)
    ELSE BitsBetween(x, ((lo + hi) \div 2) + 1, hi)

\* a number of bits k >= atLeast with x < 2^k, found by doubling
RECURSIVE BitsAbove(_, _)
BitsAbove(x, atLeast) ==
  IF JsbiLessThan(x, TwoPower(atLeast)) THEN atLeast ELSE BitsAbove(x, 2 * atLeast)

\* the number of bits of a positive integer
BitLength(x) == BitsBetween(x, 0, BitsAbove(x, MaxBits))

\* the number with 53 significant bits nearest to a positive integer, a tie
\* going to the even one: the rounding of every operation on doubles, as
\* long as the exponent is in range
RoundToDouble(x) ==
  CHOOSE n \in
    {IF len <= 53 THEN x
     ELSE CHOOSE m \in
            {LET r == JsbiSubtract(x, JsbiMultiply(q, TwoPower(len - 53)))
                 twice == JsbiAdd(r, r)
                 odd == JsbiDivide(q, JsbiOfInt(2))
                          # JsbiDivide(JsbiAdd(q, JsbiOfInt(1)), JsbiOfInt(2))
                 up == JsbiLessThan(TwoPower(len - 53), twice)
                         \/ (twice = TwoPower(len - 53) /\ odd)
             IN  JsbiMultiply(IF up THEN JsbiAdd(q, JsbiOfInt(1)) ELSE q, TwoPower(len - 53))
               : q \in {JsbiDivide(x, TwoPower(len - 53))}} : TRUE
       : len \in {BitLength(x)}} : TRUE

\* JSBI.toNumber for a positive integer: the nearest double, which is
\* Infinity when the rounded value reaches 2^1024
JsbiToNumber(x) ==
  CHOOSE n \in
    {IF JsbiLessThan(rounded, TwoPower(1024)) THEN rounded ELSE JsPosInfinity
       : rounded \in {RoundToDouble(x)}} : TRUE

\* sqrtPriceX96ToTick for a positive sqrtPriceX96, the values it can have:
\* JSBI.toNumber(sqrtPriceX96) / 2^96 is exact, its product with itself is
\* rounded to 53 bits (Infinity from 2^1024 on, that is from 2^1216 on for
\* the square of the integer), and priceToTick takes the logarithm, which
\* is Infinity for Infinity
sqrtPriceX96ToTick(sqrtPriceX96) ==
  UNION {IF n = JsPosInfinity THEN {JsPosInfinity}
         ELSE UNION {IF JsbiLessThan(square, TwoPower(1216))
                       THEN priceToTick(Exactly([num |-> square,
                                                 den |-> JsbiMultiply(Q96, Q96)]))
                       ELSE {JsPosInfinity}
                       : square \in {RoundToDouble(JsbiMultiply(n, n))}}
           : n \in {JsbiToNumber(sqrtPriceX96)}}

\* liquidities (decimal strings): 0, 1 and multiples of 10^18
LiquidityInputs ==
  {Dec(0), Dec(1)}
    \cup {JsbiToString(JsbiMultiply(JsbiOfInt(k * 7 + 1),
                                    JsbiExponentiate(JsbiOfInt(10), 18)))
            : k \in 0 .. LiquiditySteps}

\* fee-growth accumulators (decimal strings): 0, 1, multiples of 2^128, the
\* largest 256-bit value and 2^256 itself
FeeGrowthInputs ==
  {Dec(0), Dec(1)}
    \cup {JsbiToString(JsbiMultiply(JsbiOfInt(k), Q128)) : k \in 1 .. FeeGrowthSteps}
    \cup {JsbiToString(JsbiSubtract(Q256, JsbiOfInt(1))), JsbiToString(Q256)}

\* fee values: the four tiers and multiples of 250, most of them no tier
FeeInputs == FeeTierSet \cup {k * 250 : k \in 0 .. FeeSteps}

\* current ticks around 0 for calculateTickRange
SmallTickInputs == (-SmallTickWindow) .. SmallTickWindow

\* percent ranges of 0.05% and its multiples, in hundredths of a percent
\* (1 - percentRange / 100 and 1 + percentRange / 100 are no powers of 1.0001)
PercentCentiInputs == {5 * k : k \in 1 .. PercentSteps}

\* prices of a price range: 1 -+ 0.05% and its multiples
RangePriceInputs ==
  {PriceOf(10000 + 5 * k, 10000) : k \in ((-PercentSteps) .. PercentSteps) \ {0}}

\* token decimals of a pair: equal on both sides
DecimalsInputs == {6, 18}

(***************************************************************************)
(* UniswapTrigger.node.ts: the polling trigger.                            *)
(*   params      : the node parameters of the workflow (fixed)             *)
(*   now         : Math.floor(Date.now() / 1000)                           *)
(*   subgraph    : the entities the subgraph has indexed                   *)
(*   webhookData : getWorkflowStaticData('node'), kept between polls       *)
(*   emitted     : the ids of the events handed to the workflow so far     *)
(*   lastPoll    : how the poll before ended and the lower bound of its    *)
(*                 queries                                                 *)
(***************************************************************************)
\* a field of webhookData that was never assigned
Undefined == -1

\* the truthiness of a number or undefined: 0 and undefined are falsy
Truthy(x) == x # Undefined /\ x # 0

\* the static data of a workflow that has not polled yet
NoStaticData ==
  [lastTimestamp |-> Undefined, lastPrice |-> Undefined, lastPositions |-> <<>>]

\* no poll has run yet
NoPoll == [polled |-> FALSE]

\* the parameters as the node description defaults them; a token address is
\* a sequence of characters, as in the path utilities
DefaultParams ==
  [eventType |-> "swaps", limit |-> 10, poolAddress |-> "", tokenAddress |-> <<>>,
   priceThreshold |-> 5, minUsdValue |-> 100000]

EmptySubgraph ==
  [swaps |-> {}, pools |-> {}, mints |-> {}, burns |-> {},
   pool |-> [found |-> FALSE, token0Price |-> 0], positions |-> {}]

\* the number of swaps, pools, mints and burns indexed so far
EntityCount ==
  Cardinality(subgraph.swaps) + Cardinality(subgraph.pools)
    + Cardinality(subgraph.mints) + Cardinality(subgraph.burns)

Range(seq) == {seq[i] : i \in 1 .. Len(seq)}

\* --- the GraphQL queries, as the subgraph answers them ---
\* the field of an entity that a query orders by
OrderKey(e, orderBy) ==
  CASE orderBy = "timestamp" -> e.timestamp
    [] orderBy = "createdAtTimestamp" -> e.createdAtTimestamp
    [] orderBy = "amountUSD" -> e.amountUSD

\* first: $first, orderBy, orderDirection: desc over the entities of S: the
\* first entities in descending order of the field, at most `first` of them;
\* entities with equal keys come in any order
QueryResponses(S, orderBy, first) ==
  LET k == Min(first, Cardinality(S))
  IN  {r \in [1 .. k -> S] :
         /\ \A i \in 1 .. k, j \in 1 .. k :
              i < j => (r[i] # r[j] /\ OrderKey(r[i], orderBy) >= OrderKey(r[j], orderBy))
         /\ \A e \in S \ Range(r) :
              \A i \in 1 .. k : OrderKey(e, orderBy) <= OrderKey(r[i], orderBy)}

\* the id of a token that the selection of a query leaves out: undefined,
\* which is === to no string (the filter compares it with a token address
\* that is not empty)
UndefinedId == <<>>

\* swaps(where: { timestamp_gt: lastTimestamp }, first, orderBy: timestamp);
\* the selection fetches the symbols of the pool's tokens, not their ids
SwapsQuery(lastTimestamp, first) ==
  LET matching == {[id |-> s.id, timestamp |-> s.timestamp, amountUSD |-> s.amountUSD,
                    token0Id |-> UndefinedId, token1Id |-> UndefinedId]
                     : s \in {x \in subgraph.swaps : x.timestamp > lastTimestamp}}
  IN  QueryResponses(matching, "timestamp", first)

\* pools(where: { createdAtTimestamp_gt: lastTimestamp }, first,
\* orderBy: createdAtTimestamp): the token filter of whereClause is not in
\* the query text
PoolsQuery(lastTimestamp, first) ==
  QueryResponses({p \in subgraph.pools : p.createdAtTimestamp > lastTimestamp},
                 "createdAtTimestamp", first)

MintsQuery(lastTimestamp, first) ==
  QueryResponses({m \in subgraph.mints : m.timestamp > lastTimestamp}, "timestamp", first)

BurnsQuery(lastTimestamp, first) ==
  QueryResponses({b \in subgraph.burns : b.timestamp > lastTimestamp}, "timestamp", first)

\* swaps(where: { timestamp_gt, amountUSD_gte }, first, orderBy: amountUSD);
\* here the selection has the ids of the pool's tokens
WhaleQuery(lastTimestamp, minUsdValue, first) ==
  LET matching == {[id |-> s.id, timestamp |-> s.timestamp, amountUSD |-> s.amountUSD,
                    token0Id |-> s.token0Id, token1Id |-> s.token1Id]
                     : s \in {x \in subgraph.swaps : /\ x.timestamp > lastTimestamp
                                                    /\ x.amountUSD >= minUsdValue}}
  IN  QueryResponses(matching, "amountUSD", first)

\* positions(where: { owner }): all positions of the owner, in the order of
\* their ids; the query has no `first`
PositionsQuery ==
  LET S == subgraph.positions
  IN  [k \in 1 .. Cardinality(S) |->
        CHOOSE p \in S : Cardinality({q \in S : q.id < p.id}) = k - 1]

\* --- the cases of poll ---
\* events.filter(swap => token0?.id === tokenAddress.toLowerCase() ||
\* token1?.id === tokenAddress.toLowerCase()), applied when a token address
\* is given and there are events
FilterByToken(events, tokenAddress) ==
  IF tokenAddress # <<>> /\ Len(events) > 0
    THEN LET Keep(e) == \/ e.token0Id = toLowerCase(tokenAddress)
                        \/ e.token1Id = toLowerCase(tokenAddress)
         IN  SelectSeq(events, Keep)
    ELSE events

\* [...].sort((a, b) => Number(b.timestamp) - Number(a.timestamp)): stable,
\* later timestamps first
SortByTimestampDesc(events) ==
  LET n == Len(events)
      Before(j, i) ==
        \/ events[j].timestamp > events[i].timestamp
        \/ (events[j].timestamp = events[i].timestamp /\ j < i)
      Rank(i) == Cardinality({j \in 1 .. n : Before(j, i)}) + 1
  IN  [k \in 1 .. n |-> events[CHOOSE i \in 1 .. n : Rank(i) = k]]

\* the mints and the burns in one list, the newest `limit` of them
LiquidityEvents(mints, burns, limit) ==
  LET typed == [i \in 1 .. Len(mints) |->
                  [id |-> mints[i].id, timestamp |-> mints[i].timestamp, type |-> "mint"]]
               \o [i \in 1 .. Len(burns) |->
                  [id |-> burns[i].id, timestamp |-> burns[i].timestamp, type |-> "burn"]]
  IN  SubSeq(SortByTimestampDesc(typed), 1, Min(limit, Len(typed)))

\* the scale of the quotients of prices: 2^80, for prices below 2^26
PriceScale == TwoTo[80]

\* Math.abs((currentPrice - lastPrice) / lastPrice * 100) for integer prices
\* and lastPrice > 0, as the double it is, a fraction over 2^81: the
\* difference is exact, the quotient is rounded to 53 bits (the last bit of
\* the scaled quotient records a remainder), and so is its product with 100
PercentChange(lastPrice, currentPrice) ==
  CHOOSE change \in
    {[num |-> RoundToDouble(JsbiMultiply(JsbiOfInt(100), quotient)),
      den |-> JsbiMultiply(JsbiOfInt(2), PriceScale)]
       : quotient \in
           {RoundToDouble(JsbiAdd(JsbiMultiply(JsbiOfInt(2), q),
                                 IF JsbiMultiply(q, JsbiOfInt(lastPrice))
                                      = JsbiMultiply(JsbiOfInt(Abs(currentPrice - lastPrice)),
                                                     PriceScale)
                                   THEN JsbiOfInt(0) ELSE JsbiOfInt(1)))
              : q \in {JsbiDivide(JsbiMultiply(JsbiOfInt(Abs(currentPrice - lastPrice)),
                                               PriceScale),
                                  JsbiOfInt(lastPrice))}}} : TRUE

\* the price case for a pool that was found: with a truthy lastPrice,
\* priceChange >= priceThreshold for the double priceChange
PriceEvents(lastPrice, currentPrice, priceThreshold, currentTimestamp) ==
  IF Truthy(lastPrice)
       /\ JsbiLessThanOrEqual(JsbiMultiply(JsbiOfInt(priceThreshold),
                                           PercentChange(lastPrice, currentPrice).den),
                              PercentChange(lastPrice, currentPrice).num)
    THEN <<[previousPrice |-> lastPrice, currentPrice |-> currentPrice,
            direction |-> IF currentPrice > lastPrice THEN "up" ELSE "down",
            timestamp |-> currentTimestamp]>>
    ELSE <<>>

\* the entry of lastPositionMap for an id, or Undefined
LastPositionOf(lastPositions, id) ==
  IF \E i \in 1 .. Len(lastPositions) : lastPositions[i].id = id
    THEN lastPositions[CHOOSE i \in 1 .. Len(lastPositions) : lastPositions[i].id = id]
    ELSE [id |-> Undefined]

\* positions.filter(...): the positions that are new or differ in liquidity
\* or in the collected fees of a token
ChangedPositions(positions, lastPositions) ==
  LET Changed(pos) ==
        LET lastPos == LastPositionOf(lastPositions, pos.id)
        IN  \/ lastPos.id = Undefined
            \/ pos.liquidity # lastPos.liquidity
            \/ pos.collectedFeesToken0 # lastPos.collectedFeesToken0
            \/ pos.collectedFeesToken1 # lastPos.collectedFeesToken1
  IN  SelectSeq(positions, Changed)

\* changedPositions.map(...): the position with its changeType (the other
\* fields of a position and inRange are left out)
PositionEvents(positions, lastPositions) ==
  LET changed == ChangedPositions(positions, lastPositions)
  IN  [i \in 1 .. Len(changed) |->
        [id |-> changed[i].id, liquidity |-> changed[i].liquidity,
         collectedFeesToken0 |-> changed[i].collectedFeesToken0,
         collectedFeesToken1 |-> changed[i].collectedFeesToken1,
         changeType |-> IF LastPositionOf(lastPositions, changed[i].id).id # Undefined
                          THEN "updated" ELSE "new"]]

\* no response of the two liquidity queries has come in yet
NoResponse == [of |-> "none", list |-> <<>>]

\* what the switch of poll can come to for the event type of the workflow,
\* as the subgraph answers now: the events, the static data as the case
\* leaves it, or the error thrown.  Of the two liquidity queries of
\* Promise.all, one may have been answered before (held).
PollOutcomes(lastTimestamp, currentTimestamp, held) ==
  LET Done(events, data) == [threw |-> FALSE, events |-> events, data |-> data]
  IN  CASE params.eventType = "swaps" ->
             {Done(FilterByToken(r, params.tokenAddress), webhookData)
                : r \in SwapsQuery(lastTimestamp, params.limit)}
        [] params.eventType = "pools" ->
             {Done(r, webhookData) : r \in PoolsQuery(lastTimestamp, params.limit)}
        [] params.eventType = "liquidity" ->
             {Done(LiquidityEvents(m, b, params.limit), webhookData)
                : m \in IF held.of = "mints" THEN {held.list}
                        ELSE MintsQuery(lastTimestamp, params.limit),
                  b \in IF held.of = "burns" THEN {held.list}
                        ELSE BurnsQuery(lastTimestamp, params.limit)}
        [] params.eventType = "price" ->
             IF params.poolAddress = ""
               THEN {[threw |-> TRUE,
                      error |-> "Pool address is required for price monitoring"]}
             ELSE IF subgraph.pool.found
               THEN {Done(PriceEvents(webhookData.lastPrice, subgraph.pool.token0Price,
                                      params.priceThreshold, currentTimestamp),
                          [webhookData EXCEPT !.lastPrice = subgraph.pool.token0Price])}
               ELSE {Done(<<>>, webhookData)}
        [] params.eventType = "positions" ->
             {Done(PositionEvents(PositionsQuery, webhookData.lastPositions),
                   [webhookData EXCEPT !.lastPositions = PositionsQuery])}
        [] params.eventType = "whale" ->
             {Done(FilterByToken(r, params.tokenAddress), webhookData)
                : r \in WhaleQuery(lastTimestamp, params.minUsdValue, params.limit)}

\* webhookData.lastTimestamp || Math.floor(Date.now() / 1000) - 300
LowerBound(data, time) ==
  IF Truthy(data.lastTimestamp) THEN data.lastTimestamp ELSE time - 300

\* SubgraphClient.fromCredentials(context), how its promise can settle: it
\* awaits context.getCredentials(...), a TypeError when no context is handed
\* over; with a context, the credentials or their network may be missing
fromCredentials(context) ==
  IF context = "undefined"
    THEN {[threw |-> TRUE, error |-> "TypeError"]}
    ELSE {[threw |-> FALSE, error |-> ""],
          [threw |-> TRUE, error |-> "credentials"]}

\* the case of the workflow sends a query: the price watch throws before
\* that when no pool address is given
SendsQuery == ~(params.eventType = "price" /\ params.poolAddress = "")

\* webhookData.lastTimestamp = currentTimestamp
UpdateLastTimestamp(data, currentTimestamp) ==
  [data EXCEPT !.lastTimestamp = currentTimestamp]

\* the ids of the swaps, pools, mints and burns among the events
EventIds(events) ==
  IF params.eventType \in {"swaps", "pools", "liquidity", "whale"}
    THEN {events[i].id : i \in 1 .. Len(events)}
    ELSE {}

(***************************************************************************)
(* Calls.                                                                  *)
(***************************************************************************)
NoCall == [op |-> "none"]

\* nothing returned yet, or the result was taken
NoResult == [none |-> TRUE]

\* no call is under way and the trigger has not polled
Init ==
  /\ call = NoCall
  /\ ret = NoResult
  /\ params = DefaultParams
  /\ now = 1
  /\ subgraph = EmptySubgraph
  /\ webhookData = NoStaticData
  /\ emitted = {}
  /\ lastPoll = NoPoll

CallNearestUsableTick ==
  /\ call = NoCall
  /\ UNCHANGED triggerVars
  /\ \E t \in TickInputs, s \in TickSpacingSet :
       /\ call' = [op |-> "nearestUsableTick", tick |-> t, tickSpacing |-> s]
       /\ ret' = [tick |-> nearestUsableTick(t, s)]

CallGetFullRangeTicks ==
  /\ call = NoCall
  /\ UNCHANGED triggerVars
  /\ \E f \in FeeTierSet :
       /\ call' = [op |-> "getFullRangeTicks", feeTier |-> f]
       /\ ret' = getFullRangeTicks(f)

CallIsPositionInRange ==
  /\ call = NoCall
  /\ UNCHANGED triggerVars
  /\ \E l \in ValTickInputs, u \in ValTickInputs, c \in ValTickInputs :
       /\ call' = [op |-> "isPositionInRange", tickLower |-> l, tickUpper |-> u,
                   currentTick |-> c]
       /\ ret' = [inRange |-> isPositionInRange(l, u, c)]

CallValidateTicks ==
  /\ call = NoCall
  /\ UNCHANGED triggerVars
  /\ \E l \in ValTickInputs, u \in ValTickInputs, s \in TickSpacingSet :
       /\ call' = [op |-> "validateTicks", tickLower |-> l, tickUpper |-> u,
                   tickSpacing |-> s]
       /\ ret' = validateTicks(l, u, s)

CallSuggestTickRange ==
  /\ call = NoCall
  /\ UNCHANGED triggerVars
  /\ \E t \in CurrentTickInputs, v \in 1 .. VolMax, r \in 1 .. MaxSqrtDays,
        c \in ConfidenceInputs, f \in FeeTierSet :
       /\ call' = [op |-> "suggestTickRange", currentTick |-> t,
                   volatilityBps |-> v, holdingPeriodDays |-> r * r,
                   confidencePct |-> c, feeTier |-> f]
       /\ ret' \in suggestTickRange(t, v, r * r, c, f)

\* the caller takes the result
Return ==
  /\ call # NoCall
  /\ ret # NoResult
  /\ UNCHANGED triggerVars
  /\ call' = NoCall
  /\ ret' = NoResult

Next ==
  \/ Return
  \/ CallNearestUsableTick
  \/ CallGetFullRangeTicks
  \/ CallIsPositionInRange
  \/ CallValidateTicks
  \/ CallSuggestTickRange

Spec == Init /\ [][Next]_vars

\* x < y for decimal strings
DecLess(x, y) == JsbiLessThan(JsbiBigInt(x), JsbiBigInt(y))
DecLessOrEqual(x, y) == JsbiLessThanOrEqual(JsbiBigInt(x), JsbiBigInt(y))

\* a position's range is ordered, sqrtPriceA < sqrtPriceB; the current price
\* is anywhere
CallCalculateLiquidityFromAmounts ==
  /\ call = NoCall
  /\ UNCHANGED triggerVars
  /\ \E p \in SqrtPriceInputs, a \in SqrtPriceInputs, b \in SqrtPriceInputs,
        a0 \in AmountInputs, a1 \in AmountInputs :
       /\ DecLess(a, b)
       /\ call' = [op |-> "calculateLiquidityFromAmounts", sqrtPriceX96 |-> p,
                   sqrtPriceAX96 |-> a, sqrtPriceBX96 |-> b,
                   amount0 |-> a0, amount1 |-> a1]
       /\ ret' = [liquidity |-> calculateLiquidityFromAmounts(p, a, b, a0, a1)]

NextLiq ==
  \/ Return
  \/ CallCalculateLiquidityFromAmounts

SpecLiq == Init /\ [][NextLiq]_vars

\* any three prices: the range may be ordered, empty or reversed.  The prices
\* are arbitrary Q64.96 values or the square-root prices of ticks.
CallCalculateAmountsFromLiquidity ==
  /\ call = NoCall
  /\ UNCHANGED triggerVars
  /\ \E prices \in {SqrtPriceInputs, TickSqrtPriceInputs} :
       \E p \in prices, a \in prices, b \in prices, l \in LiquidityInputs :
         /\ call' = [op |-> "calculateAmountsFromLiquidity", sqrtPriceX96 |-> p,
                     sqrtPriceAX96 |-> a, sqrtPriceBX96 |-> b, liquidity |-> l]
         /\ ret' = calculateAmountsFromLiquidity(p, a, b, l)

NextAmt ==
  \/ Return
  \/ CallCalculateAmountsFromLiquidity

SpecAmt == Init /\ [][NextAmt]_vars

\* a range that is empty or reversed, sqrtPriceA >= sqrtPriceB
CallCalculateLiquidityFromAmountsMismatched ==
  /\ call = NoCall
  /\ UNCHANGED triggerVars
  /\ \E p \in SqrtPriceInputs, a \in SqrtPriceInputs, b \in SqrtPriceInputs,
        a0 \in AmountInputs, a1 \in AmountInputs :
       /\ ~DecLess(a, b)
       /\ call' = [op |-> "calculateLiquidityFromAmounts", sqrtPriceX96 |-> p,
                   sqrtPriceAX96 |-> a, sqrtPriceBX96 |-> b,
                   amount0 |-> a0, amount1 |-> a1]
       /\ ret' = [liquidity |-> calculateLiquidityFromAmounts(p, a, b, a0, a1)]

NextMismatch ==
  \/ Return
  \/ CallCalculateLiquidityFromAmountsMismatched
  \/ CallCalculateAmountsFromLiquidity

SpecMismatch == Init /\ [][NextMismatch]_vars

\* the snapshots may be behind or ahead of the accumulators
CallCalculateFees ==
  /\ call = NoCall
  /\ UNCHANGED triggerVars
  /\ \E g0 \in FeeGrowthInputs, g1 \in FeeGrowthInputs, l \in LiquidityInputs,
        last0 \in FeeGrowthInputs, last1 \in FeeGrowthInputs :
       /\ call' = [op |-> "calculateFees", feeGrowthInside0X128 |-> g0,
                   feeGrowthInside1X128 |-> g1, liquidity |-> l,
                   feeGrowthInside0LastX128 |-> last0,
                   feeGrowthInside1LastX128 |-> last1]
       /\ ret' = calculateFees(g0, g1, l, last0, last1)

NextFees ==
  \/ Return
  \/ CallCalculateFees

SpecFees == Init /\ [][NextFees]_vars

\* the functions that look up the tick spacing, with fee values of any kind
CallGetTickSpacing ==
  /\ call = NoCall
  /\ UNCHANGED triggerVars
  /\ \E f \in FeeInputs :
       /\ call' = [op |-> "getTickSpacing", fee |-> f]
       /\ ret' = getTickSpacing(f)

CallCalculateTickRange ==
  /\ call = NoCall
  /\ UNCHANGED triggerVars
  /\ \E t \in SmallTickInputs, pc \in PercentCentiInputs, f \in FeeInputs :
       /\ call' = [op |-> "calculateTickRange", currentTick |-> t,
                   percentRangeCenti |-> pc, feeTier |-> f]
       /\ ret' \in calculateTickRange(t, pc, f)

CallGetTicksFromPriceRange ==
  /\ call = NoCall
  /\ UNCHANGED triggerVars
  /\ \E lo \in RangePriceInputs, hi \in RangePriceInputs, f \in FeeInputs,
        d \in DecimalsInputs :
       /\ call' = [op |-> "getTicksFromPriceRange", priceLower |-> lo,
                   priceUpper |-> hi, feeTier |-> f, decimals0 |-> d,
                   decimals1 |-> d]
       /\ ret' \in getTicksFromPriceRange(lo, hi, f, d, d)

CallGetFullRangeTicksAnyFee ==
  /\ call = NoCall
  /\ UNCHANGED triggerVars
  /\ \E f \in FeeInputs :
       /\ call' = [op |-> "getFullRangeTicks", feeTier |-> f]
       /\ ret' = getFullRangeTicks(f)

CallSuggestTickRangeAnyFee ==
  /\ call = NoCall
  /\ UNCHANGED triggerVars
  /\ \E t \in SmallTickInputs, v \in 1 .. VolMax, c \in ConfidenceInputs,
        f \in FeeInputs :
       /\ call' = [op |-> "suggestTickRange", currentTick |-> t,
                   volatilityBps |-> v, holdingPeriodDays |-> 1,
                   confidencePct |-> c, feeTier |-> f]
       /\ ret' \in suggestTickRange(t, v, 1, c, f)

NextTier ==
  \/ Return
  \/ CallGetTickSpacing
  \/ CallCalculateTickRange
  \/ CallGetTicksFromPriceRange
  \/ CallGetFullRangeTicksAnyFee
  \/ CallSuggestTickRangeAnyFee

SpecTier == Init /\ [][NextTier]_vars

\* prices at and below 0, and the prices of a price range
PriceToTickInputs ==
  {PriceOf(-k, 10000) : k \in 0 .. NonPositiveSteps} \cup RangePriceInputs
    \cup {PriceOf(10000, 10000)}

CallPriceToTick ==
  /\ call = NoCall
  /\ UNCHANGED triggerVars
  /\ \E p \in PriceToTickInputs :
       /\ call' = [op |-> "priceToTick", price |-> p]
       /\ ret' \in priceToTick(Exactly(p))

CallCapitalEfficiency ==
  /\ call = NoCall
  /\ UNCHANGED triggerVars
  /\ \E lo \in (-EfficiencyWindow) .. EfficiencyWindow,
        hi \in (-EfficiencyWindow) .. EfficiencyWindow :
       /\ call' = [op |-> "capitalEfficiency", tickLower |-> lo, tickUpper |-> hi]
       /\ ret' = capitalEfficiency(lo, hi)

CallEstimateAPR ==
  /\ call = NoCall
  /\ UNCHANGED triggerVars
  /\ \E f \in 0 .. AprSteps, t \in 0 .. AprSteps :
       /\ call' = [op |-> "estimateAPR", fees24h |-> 250 * f, tvl |-> 5 * t]
       /\ ret' = estimateAPR(250 * f, 5 * t)

\* the number-valued functions with a degenerate input
NextNum ==
  \/ Return
  \/ CallPriceToTick
  \/ CallCapitalEfficiency
  \/ CallEstimateAPR

SpecNum == Init /\ [][NextNum]_vars

\* ticks around 0 for the conversions
PowTickInputs == (-PowWindow) .. PowWindow

\* square-root prices at and next to 2^96, and 2^96 with a multiple of 2^80
SqrtPriceX96Inputs ==
  {JsbiAdd(Q96, IF j < 0 THEN JsbiNegate(JsbiOfInt(-j)) ELSE JsbiOfInt(j))
     : j \in (-SqrtOffsets) .. SqrtOffsets}
    \cup {JsbiAdd(Q96, JsbiMultiply(IF j < 0 THEN JsbiNegate(JsbiOfInt(-j))
                                              ELSE JsbiOfInt(j),
                                    JsbiExponentiate(JsbiOfInt(2), 80)))
            : j \in (-SqrtOffsets) .. SqrtOffsets}

CallTickToPrice ==
  /\ call = NoCall
  /\ UNCHANGED triggerVars
  /\ \E t \in PowTickInputs :
       /\ call' = [op |-> "tickToPrice", tick |-> t]
       /\ ret' = [price |-> tickToPrice(t)]

\* tickToPrice is called for one tick and for another
CallTickToPriceTwice ==
  /\ call = NoCall
  /\ UNCHANGED triggerVars
  /\ \E t1 \in PowTickInputs, t2 \in PowTickInputs :
       /\ call' = [op |-> "tickToPrice twice", tick1 |-> t1, tick2 |-> t2]
       /\ ret' = [price1 |-> tickToPrice(t1), price2 |-> tickToPrice(t2)]

CallTickToSqrtPriceX96 ==
  /\ call = NoCall
  /\ UNCHANGED triggerVars
  /\ \E t \in {u \in PowTickInputs : u % 2 = 0} :
       /\ call' = [op |-> "tickToSqrtPriceX96", tick |-> t]
       /\ ret' \in tickToSqrtPriceX96(t)

CallSqrtPriceX96ToTick ==
  /\ call = NoCall
  /\ UNCHANGED triggerVars
  /\ \E x \in SqrtPriceX96Inputs :
       /\ call' = [op |-> "sqrtPriceX96ToTick", sqrtPriceX96 |-> JsbiToString(x)]
       /\ ret' \in sqrtPriceX96ToTick(x)

\* the conversions between ticks, prices and square-root prices
NextConv ==
  \/ Return
  \/ CallTickToPrice
  \/ CallTickToPriceTwice
  \/ CallPriceToTick
  \/ CallTickToSqrtPriceX96
  \/ CallSqrtPriceX96ToTick

SpecConv == Init /\ [][NextConv]_vars

\* token addresses in mixed case, as wallets write them
PathTokenInputs ==
  {Chars("0xC02aaA39b223FE8D0A0e5C4F27eAD9083C756Cc2"),
   Chars("0xA0b86991c6218b36c1d19D4a2e9Eb0cE3606eB48"),
   Chars("0xdAC17F958D2ee523a2206206994597C13D831ec7")}

\* pool fees of 3 bytes: the smallest, two tiers and the largest
PathFeeInputs == {0, 500, 3000, 16777215}

PathHopInputs ==
  [tokenIn : PathTokenInputs, tokenOut : PathTokenInputs, fee : PathFeeInputs]

\* paths of up to MaxHops hops, continuous or not, and the empty path
PathInputs == UNION {[1 .. n -> PathHopInputs] : n \in 0 .. MaxHops}

\* a path is encoded and the encoding is decoded
CallDecodeEncodedPath ==
  /\ call = NoCall
  /\ UNCHANGED triggerVars
  /\ \E path \in PathInputs :
       /\ call' = [op |-> "decodePath(encodePath)", path |-> path]
       /\ ret' = LET e == encodePath(path)
                 IN  IF e.threw THEN e
                     ELSE [threw |-> FALSE, encoded |-> e.encoded,
                           decoded |-> decodePath(e.encoded)]

NextPath ==
  \/ Return
  \/ CallDecodeEncodedPath

SpecPath == Init /\ [][NextPath]_vars

(***************************************************************************)
(* The trigger: the workflow's parameters, the subgraph and the polls.     *)
(***************************************************************************)
\* token addresses: a pool of the token that is watched as token0, one of it
\* as token1, and a pool without it
TokenA == Chars("0xa1")
TokenB == Chars("0xb2")
TokenC == Chars("0xc3")

\* the parameters of a workflow: each event type with limits 1 .. MaxLimit;
\* a token filter for swaps and whale swaps, in lower and in upper case; the
\* price watch with and without a pool address and with a threshold of 5 and
\* of 29 percent (the pool filter of swaps and liquidity is left empty)
TriggerParamInputs ==
  {[DefaultParams EXCEPT !.eventType = "swaps", !.limit = l, !.tokenAddress = t]
     : l \in 1 .. MaxLimit, t \in {<<>>, TokenA}}
    \cup {[DefaultParams EXCEPT !.eventType = "whale", !.limit = l, !.tokenAddress = t]
            : l \in 1 .. MaxLimit, t \in {<<>>, TokenA, Chars("0xA1")}}
    \cup {[DefaultParams EXCEPT !.eventType = e, !.limit = l]
            : e \in {"pools", "liquidity", "positions"}, l \in 1 .. MaxLimit}
    \cup {[DefaultParams EXCEPT !.eventType = "price", !.limit = 1, !.poolAddress = p,
                                !.priceThreshold = t]
            : p \in {"", "pool1"}, t \in {5, 29}}

\* the swaps a whale watch is tried on: a USD value below, at or above the
\* default threshold, in a pool with the watched token as token0, as token1
\* or not at all
WhaleSwapInputs ==
  {[amountUSD |-> 50000, token0Id |-> TokenA, token1Id |-> TokenB],
   [amountUSD |-> 100000, token0Id |-> TokenA, token1Id |-> TokenB],
   [amountUSD |-> 200000, token0Id |-> TokenB, token1Id |-> TokenA],
   [amountUSD |-> 200000, token0Id |-> TokenB, token1Id |-> TokenC]}

\* the swaps of the other workflows, whose queries read neither value nor
\* token ids
PlainSwapInputs ==
  {[amountUSD |-> 100000, token0Id |-> TokenA, token1Id |-> TokenB]}

\* token0Price of the watched pool: 0 (a pool that is not initialized), 100,
\* the prices from 105 - PriceRise to 105, and 129, where
\* (129 - 100) / 100 * 100 is a double below 29
TriggerPriceInputs == {0, 100, 129} \cup {105 - k : k \in 0 .. PriceRise}

\* liquidity and collected fees of a position: from one to the next, one of
\* the three fields changes
PositionInputs ==
  {[id |-> i, liquidity |-> v[1], collectedFeesToken0 |-> v[2],
    collectedFeesToken1 |-> v[3]]
     : i \in 1 .. MaxPositions,
       v \in {<<0, 0, 0>>, <<1, 0, 0>>, <<1, 1, 0>>, <<1, 1, 1>>}}

InitTrigger ==
  /\ call = NoCall
  /\ ret = NoResult
  /\ params \in TriggerParamInputs
  /\ now = 1
  /\ subgraph = EmptySubgraph
  /\ webhookData = NoStaticData
  /\ emitted = {}
  /\ lastPoll = NoPoll

\* The environment of a poll acts between two polls and while a poll awaits
\* the client or the subgraph (ret = NoResult); the statements of poll
\* between two awaits run without interruption.
\* a second passes
TimePasses ==
  /\ ret = NoResult
  /\ now < MaxTime
  /\ now' = now + 1
  /\ UNCHANGED <<call, ret, params, subgraph, webhookData, emitted, lastPoll>>

\* The subgraph indexes a new entity of the kind the workflow's query reads
\* (entities of the other kinds do not reach the poll and are left out; the
\* value and the tokens of a swap vary where the query reads them).
SwapOccurs ==
  /\ ret = NoResult
  /\ params.eventType \in {"swaps", "whale"}
  /\ EntityCount < MaxEvents
  /\ \E s \in IF params.eventType = "whale" THEN WhaleSwapInputs ELSE PlainSwapInputs :
       subgraph' = [subgraph EXCEPT !.swaps = @ \cup
                      {[id |-> EntityCount + 1, timestamp |-> now,
                        amountUSD |-> s.amountUSD, token0Id |-> s.token0Id,
                        token1Id |-> s.token1Id]}]
  /\ UNCHANGED <<call, ret, params, now, webhookData, emitted, lastPoll>>

PoolCreated ==
  /\ ret = NoResult
  /\ params.eventType = "pools"
  /\ EntityCount < MaxEvents
  /\ subgraph' = [subgraph EXCEPT !.pools = @ \cup
                    {[id |-> EntityCount + 1, createdAtTimestamp |-> now]}]
  /\ UNCHANGED <<call, ret, params, now, webhookData, emitted, lastPoll>>

MintOccurs ==
  /\ ret = NoResult
  /\ params.eventType = "liquidity"
  /\ EntityCount < MaxEvents
  /\ subgraph' = [subgraph EXCEPT !.mints = @ \cup
                    {[id |-> EntityCount + 1, timestamp |-> now]}]
  /\ UNCHANGED <<call, ret, params, now, webhookData, emitted, lastPoll>>

BurnOccurs ==
  /\ ret = NoResult
  /\ params.eventType = "liquidity"
  /\ EntityCount < MaxEvents
  /\ subgraph' = [subgraph EXCEPT !.burns = @ \cup
                    {[id |-> EntityCount + 1, timestamp |-> now]}]
  /\ UNCHANGED <<call, ret, params, now, webhookData, emitted, lastPoll>>

\* the watched pool is indexed or its price changes
PriceMoves ==
  /\ ret = NoResult
  /\ params.eventType = "price"
  /\ \E p \in TriggerPriceInputs :
       /\ subgraph.pool # [found |-> TRUE, token0Price |-> p]
       /\ subgraph' = [subgraph EXCEPT !.pool = [found |-> TRUE, token0Price |-> p]]
  /\ UNCHANGED <<call, ret, params, now, webhookData, emitted, lastPoll>>

\* a position of the owner appears or changes
PositionChanges ==
  /\ ret = NoResult
  /\ params.eventType = "positions"
  /\ \E p \in PositionInputs :
       /\ p \notin subgraph.positions
       /\ subgraph' = [subgraph EXCEPT !.positions =
                         {q \in @ : q.id # p.id} \cup {p}]
  /\ UNCHANGED <<call, ret, params, now, webhookData, emitted, lastPoll>>

\* a position leaves the owner
PositionLeaves ==
  /\ ret = NoResult
  /\ params.eventType = "positions"
  /\ \E p \in subgraph.positions :
       subgraph' = [subgraph EXCEPT !.positions = @ \ {p}]
  /\ UNCHANGED <<call, ret, params, now, webhookData, emitted, lastPoll>>

\* poll is called: it reads the parameters and the static data, fixes the
\* lower bound of its queries (line 126, which reads the clock when no
\* lastTimestamp is stored) and its current time (line 127, which reads the
\* clock again: it may have moved on, and it does not go back), and awaits
\* the client.  startedAt is the clock at line 126.
PollBegins ==
  /\ call = NoCall
  /\ \E second \in now .. MaxTime :
       /\ call' = [op |-> "poll", at |-> "client", startedAt |-> now,
                   lastTimestamp |-> LowerBound(webhookData, now),
                   currentTimestamp |-> second, before |-> webhookData,
                   previous |-> lastPoll, held |-> NoResponse]
       /\ now' = second
  /\ UNCHANGED <<ret, params, subgraph, webhookData, emitted, lastPoll>>

\* a faulty variant: the current time is stored before the error is thrown
PollThrows_Stored(error, cause) ==
  /\ call' = [call EXCEPT !.at = "done"]
  /\ ret' = [threw |-> TRUE, error |-> error, cause |-> cause]
  /\ lastPoll' = [polled |-> TRUE, threw |-> TRUE,
                  lastTimestamp |-> call.lastTimestamp]
  /\ webhookData' = UpdateLastTimestamp(webhookData, call.currentTimestamp)
  /\ UNCHANGED <<params, now, subgraph, emitted>>

\* poll throws a NodeOperationError: nothing is stored
PollThrows(error, cause) ==
  /\ call' = [call EXCEPT !.at = "done"]
  /\ ret' = [threw |-> TRUE, error |-> error, cause |-> cause]
  /\ lastPoll' = [polled |-> TRUE, threw |-> TRUE,
                  lastTimestamp |-> call.lastTimestamp]
  /\ UNCHANGED <<params, now, subgraph, webhookData, emitted>>

\* the switch has ended: its throw leaves poll as 'Failed to poll events';
\* otherwise the current time of the poll is stored and the events are
\* returned, or null when there are none
SwitchEnds(out) ==
  IF out.threw
    THEN PollThrows("Failed to poll events", out.error)
    ELSE /\ call' = [call EXCEPT !.at = "done"]
         /\ ret' = [threw |-> FALSE, events |-> out.events,
                    returned |-> IF Len(out.events) = 0 THEN "null" ELSE "items"]
         /\ webhookData' = UpdateLastTimestamp(out.data, call.currentTimestamp)
         /\ emitted' = emitted \cup EventIds(out.events)
         /\ lastPoll' = [polled |-> TRUE, threw |-> FALSE,
                         lastTimestamp |-> call.lastTimestamp]
         /\ UNCHANGED <<params, now, subgraph>>

\* the promise of SubgraphClient.fromCredentials settles for the context it
\* was handed: a rejection leaves poll as 'Failed to initialize client';
\* with the client, poll runs up to its query, or throws for a price watch
\* without a pool address
ClientSettles(context) ==
  /\ call.op = "poll" /\ call.at = "client"
  /\ \E client \in fromCredentials(context) :
       IF client.threw
         THEN PollThrows("Failed to initialize client", client.error)
       ELSE IF SendsQuery
         THEN /\ call' = [call EXCEPT !.at = "query"]
              /\ UNCHANGED <<ret, params, now, subgraph, webhookData, emitted, lastPoll>>
       ELSE \E out \in PollOutcomes(call.lastTimestamp, call.currentTimestamp, call.held) :
              SwitchEnds(out)

\* line 131: SubgraphClient.fromCredentials.call(this) makes the poll
\* context the `this` of the static method and hands it no argument, so the
\* context of fromCredentials is undefined
CreateClient == ClientSettles("undefined")

\* The awaits of the queries (lines 170 to 351).  A poll reaches them only
\* with a client: in the node as it is written no poll does, so they are
\* steps of no behaviour of SpecTrigger and no disjunct of NextTrigger.
\* the subgraph answers the first of the two liquidity queries
FirstOfTwoAnswered ==
  /\ call.op = "poll" /\ call.at = "query"
  /\ params.eventType = "liquidity"
  /\ call.held = NoResponse
  /\ \E r \in {[of |-> "mints", list |-> m]
                  : m \in MintsQuery(call.lastTimestamp, params.limit)}
               \cup {[of |-> "burns", list |-> b]
                       : b \in BurnsQuery(call.lastTimestamp, params.limit)} :
       call' = [call EXCEPT !.held = r]
  /\ UNCHANGED <<ret, params, now, subgraph, webhookData, emitted, lastPoll>>

\* the subgraph answers the query of the poll (the second one of the two
\* liquidity queries) and poll runs to its end
SubgraphAnswers ==
  /\ call.op = "poll" /\ call.at = "query"
  /\ params.eventType = "liquidity" => call.held # NoResponse
  /\ \E out \in PollOutcomes(call.lastTimestamp, call.currentTimestamp, call.held) :
       SwitchEnds(out)

\* a query of the subgraph fails
QueryFails ==
  /\ call.op = "poll" /\ call.at = "query"
  /\ PollThrows("Failed to poll events", "request failed")

\* the trigger and its environment
NextTrigger ==
  \/ Return
  \/ TimePasses
  \/ SwapOccurs
  \/ PoolCreated
  \/ MintOccurs
  \/ BurnOccurs
  \/ PriceMoves
  \/ PositionChanges
  \/ PositionLeaves
  \/ PollBegins
  \/ CreateClient

SpecTrigger == InitTrigger /\ [][NextTrigger]_vars

(***************************************************************************)
(* Uniswap.execute: the loop over the input items.  An input item is the   *)
(* outcome of its action: a list of `outputs` results, or a thrown error   *)
(* with a message.  execute awaits the action of each item, so it runs in  *)
(* steps: from its call or from the settling of an action up to the next   *)
(* await or to its end.  this.continueOnFail() is asked at every catch,    *)
(* and the host answers each time.                                         *)
(***************************************************************************)
\* the resources of the switch (two of the 22 cases: all have the same form)
Resources == {"swap", "utility"}

\* result = await <resource>.execute.call(this, i, operation), or the throw
\* of the default case; i counts from 0
ItemAction(items, resource, i) ==
  IF resource \notin Resources
    THEN [threw |-> TRUE, message |-> "Unknown resource: " \o resource]
  ELSE IF items[i + 1].fails
    THEN [threw |-> TRUE, message |-> items[i + 1].message]
  ELSE [threw |-> FALSE,
        result |-> [k \in 1 .. items[i + 1].outputs |->
                      [json |-> [item |-> i, output |-> k]]]]

\* a faulty variant: the failure of an item leaves no entry
ErrorEntries_None(message, i) ==
  <<>>

\* returnData.push({ json: { error: error.message }, pairedItem: { item: i } })
ErrorEntries(message, i) ==
  <<[json |-> [error |-> message], pairedItem |-> [item |-> i]]>>

\* execute has ended: it returned [returnData] or threw
ExecuteEnds(result, asked) ==
  [at |-> "done", i |-> 0, returnData |-> <<>>, asked |-> asked, result |-> result]

RECURSIVE ExecuteFrom(_, _, _, _, _)
RECURSIVE Caught(_, _, _, _, _, _)
\* catch (error) { if (this.continueOnFail()) { push; continue; } throw error; }
\* for the error of item i, over the two answers of continueOnFail()
Caught(items, resource, i, returnData, asked, message) ==
  ExecuteFrom(items, resource, i + 1, returnData \o ErrorEntries(message, i),
              Append(asked, [item |-> i, answer |-> TRUE]))
    \cup {ExecuteEnds([threw |-> TRUE, error |-> message],
                      Append(asked, [item |-> i, answer |-> FALSE]))}

\* for (let i = 0; i < items.length; i++) { try ... catch ... }, from item i
\* on with the returnData so far, up to the next await or to the end: how
\* execute can stand then.  The action of a known resource is awaited; the
\* default case throws at once.
ExecuteFrom(items, resource, i, returnData, asked) ==
  IF ~(i < Len(items))
    THEN {ExecuteEnds([threw |-> FALSE, returnData |-> returnData], asked)}
  ELSE IF resource \in Resources
    THEN {[at |-> "await", i |-> i, returnData |-> returnData, asked |-> asked,
           result |-> NoResult]}
  ELSE Caught(items, resource, i, returnData, asked,
              ItemAction(items, resource, i).message)

\* input items: their action returns one or two results or throws
ItemInputs ==
  {[fails |-> FALSE, outputs |-> k, message |-> ""] : k \in {1, 2}}
    \cup {[fails |-> TRUE, outputs |-> 0, message |-> m]
            : m \in {"execution reverted", "insufficient liquidity"}}

ItemsInputs == UNION {[1 .. n -> ItemInputs] : n \in 0 .. MaxItems}

\* execute is called and runs up to its first await, or to its end
CallExecute ==
  /\ call = NoCall
  /\ UNCHANGED triggerVars
  /\ \E items \in ItemsInputs, resource \in Resources \cup {"bridge"} :
       \E then \in ExecuteFrom(items, resource, 0, <<>>, <<>>) :
         /\ call' = [op |-> "execute", items |-> items, resource |-> resource,
                     at |-> then.at, i |-> then.i, returnData |-> then.returnData,
                     asked |-> then.asked]
         /\ ret' = then.result

\* the awaited action of item i settles, and execute runs on to its next
\* await or to its end
ActionSettles ==
  /\ call.op = "execute" /\ call.at = "await"
  /\ UNCHANGED triggerVars
  /\ \E then \in
          IF ItemAction(call.items, call.resource, call.i).threw
            THEN Caught(call.items, call.resource, call.i, call.returnData, call.asked,
                        ItemAction(call.items, call.resource, call.i).message)
            ELSE ExecuteFrom(call.items, call.resource, call.i + 1,
                             call.returnData \o ItemAction(call.items, call.resource,
                                                           call.i).result,
                             call.asked) :
       /\ call' = [call EXCEPT !.at = then.at, !.i = then.i,
                               !.returnData = then.returnData, !.asked = then.asked]
       /\ ret' = then.result

NextExecute ==
  \/ Return
  \/ CallExecute
  \/ ActionSettles

SpecExecute == Init /\ [][NextExecute]_vars

(***************************************************************************)
(* concentrationFactor next to isPositionInRange.                          *)
(***************************************************************************)
\* concentrationFactor: 0 out of range, fullRange / positionRange otherwise
concentrationFactor(tickLower, tickUpper, currentTick) ==
  IF currentTick < tickLower \/ currentTick > tickUpper
    THEN JsDivide(0, 1)
  ELSE LET fullRange == MAX_TICK - MIN_TICK
           positionRange == tickUpper - tickLower
       IN  JsDivide(fullRange, positionRange)

ConcTickInputs == (-ConcWindow) .. ConcWindow

\* both functions are called with the same ticks
CallConcentrationFactor ==
  /\ call = NoCall
  /\ UNCHANGED triggerVars
  /\ \E l \in ConcTickInputs, u \in ConcTickInputs, c \in ConcTickInputs :
       /\ call' = [op |-> "concentrationFactor", tickLower |-> l, tickUpper |-> u,
                   currentTick |-> c]
       /\ ret' = [factor |-> concentrationFactor(l, u, c),
                  inRange |-> isPositionInRange(l, u, c)]

NextConc ==
  \/ Return
  \/ CallConcentrationFactor

SpecConc == Init /\ [][NextConc]_vars

(***************************************************************************)
(* Properties of the tick and range functions, checked under Spec.         *)
(***************************************************************************)
\* t divides exactly by s (mathematical divisibility, s > 0)
Divides(s, t) == t % s = 0

SnapCall == call.op = "nearestUsableTick"

\* the snap did not clamp: the rounded value is within the tick bounds
SnapUnclamped ==
  /\ roundedTick(call.tick, call.tickSpacing) >= MIN_TICK
  /\ roundedTick(call.tick, call.tickSpacing) <= MAX_TICK

\* C1: snapping is idempotent: snapping the tick that nearestUsableTick(t, s)
\* returned, with the same spacing s, returns that tick again.
C1_SnapIdempotent ==
  SnapCall => nearestUsableTick(ret.tick, call.tickSpacing) = ret.tick

\* C2: the tick nearestUsableTick(t, s) returns is usable (divisible by s) and
\* valid (within [MIN_TICK, MAX_TICK]).
C2_SnapUsableAndValid ==
  SnapCall => isUsableTick(ret.tick, call.tickSpacing) /\ isValidTick(ret.tick)

\* C3 as stated: nearestUsableTick(t, s) returns a value inside
\* [MIN_TICK + s, MAX_TICK - s].
C3_ResultWithinMargin ==
  SnapCall =>
    ret.tick >= MIN_TICK + call.tickSpacing /\ ret.tick <= MAX_TICK - call.tickSpacing

\* C3 as amended: nearestUsableTick(t, s) returns a value inside
\* [MIN_TICK, MAX_TICK]; it is MIN_TICK + s when the rounded value is below
\* MIN_TICK, MAX_TICK - s when the rounded value is above MAX_TICK, and the
\* rounded value itself (which may be MIN_TICK or MAX_TICK) otherwise.
C3_ResultWithinBounds ==
  SnapCall =>
    LET rounded == roundedTick(call.tick, call.tickSpacing)
    IN  /\ ret.tick >= MIN_TICK /\ ret.tick <= MAX_TICK
        /\ rounded < MIN_TICK => ret.tick = MIN_TICK + call.tickSpacing
        /\ rounded > MAX_TICK => ret.tick = MAX_TICK - call.tickSpacing
        /\ (rounded >= MIN_TICK /\ rounded <= MAX_TICK) => ret.tick = rounded

\* a snap that clamped at the upper end
C3_Witness ==
  /\ SnapCall
  /\ roundedTick(call.tick, call.tickSpacing) > MAX_TICK
  /\ ret.tick = MAX_TICK - call.tickSpacing

\* C4 as stated: an unclamped snap returns the multiple of s nearest to t and,
\* when t is halfway between two multiples, the one farther from zero.
C4_NearestTiesAwayFromZero ==
  (SnapCall /\ SnapUnclamped) =>
    /\ Divides(call.tickSpacing, ret.tick)
    /\ 2 * Abs(ret.tick - call.tick) <= call.tickSpacing
    /\ 2 * Abs(ret.tick - call.tick) = call.tickSpacing => Abs(ret.tick) > Abs(call.tick)

\* C4 as amended: an unclamped snap returns the multiple of s nearest to t and,
\* when t is halfway between two multiples, the larger one (ties go toward
\* positive infinity: away from zero for t > 0, toward zero for t < 0).
C4_NearestTiesTowardPositive ==
  (SnapCall /\ SnapUnclamped) =>
    /\ Divides(call.tickSpacing, ret.tick)
    /\ 2 * Abs(ret.tick - call.tick) <= call.tickSpacing
    /\ 2 * Abs(ret.tick - call.tick) = call.tickSpacing => ret.tick > call.tick

\* a negative tick halfway between two multiples was snapped
C4_Witness ==
  /\ SnapCall /\ SnapUnclamped
  /\ call.tick < 0
  /\ 2 * Abs(ret.tick - call.tick) = call.tickSpacing

\* C5: getFullRangeTicks(feeTier) returns usable ticks within the tick bounds
\* with tickLower < tickUpper, so that validateTicks accepts the range.
C5_FullRangeValid ==
  call.op = "getFullRangeTicks" =>
    LET s == FEE_TIERS[call.feeTier]
    IN  /\ Divides(s, ret.tickLower) /\ Divides(s, ret.tickUpper)
        /\ isValidTick(ret.tickLower) /\ isValidTick(ret.tickUpper)
        /\ ret.tickLower < ret.tickUpper
        /\ validateTicks(ret.tickLower, ret.tickUpper, s).valid

\* C6: every range suggestTickRange returns is a valid PositionRange:
\* tickLower < tickUpper, both ticks divisible by the tier's tick spacing and
\* both within [MIN_TICK, MAX_TICK].
C6_SuggestedRangeValid ==
  call.op = "suggestTickRange" =>
    LET s == FEE_TIERS[call.feeTier]
    IN  /\ ret.tickLower < ret.tickUpper
        /\ Divides(s, ret.tickLower) /\ Divides(s, ret.tickUpper)
        /\ isValidTick(ret.tickLower) /\ isValidTick(ret.tickUpper)

\* C7: validateTicks returns valid exactly when tickLower < tickUpper, both
\* ticks are within [MIN_TICK, MAX_TICK] and both are divisible by the
\* spacing; otherwise valid is false and the one error is that of the first
\* failing check: ordering, bounds, tickLower alignment, tickUpper alignment.
C7_OrderOk == call.tickLower < call.tickUpper
C7_BoundsOk ==
  /\ MIN_TICK <= call.tickLower /\ call.tickLower <= MAX_TICK
  /\ MIN_TICK <= call.tickUpper /\ call.tickUpper <= MAX_TICK
C7_LowerOk == Divides(call.tickSpacing, call.tickLower)
C7_UpperOk == Divides(call.tickSpacing, call.tickUpper)

C7_ValidateTicksFirstFailure ==
  call.op = "validateTicks" =>
    /\ ret.valid <=> (C7_OrderOk /\ C7_BoundsOk /\ C7_LowerOk /\ C7_UpperOk)
    /\ ret.error =
         IF ~C7_OrderOk THEN "tickLower must be less than tickUpper"
         ELSE IF ~C7_BoundsOk THEN "Ticks out of valid range"
         ELSE IF ~C7_LowerOk THEN "tickLower not aligned to tick spacing"
         ELSE IF ~C7_UpperOk THEN "tickUpper not aligned to tick spacing"
         ELSE ""

\* an ordered range whose upper tick is out of bounds and whose lower tick is
\* misaligned: only the bounds error is reported
C7_Witness ==
  /\ call.op = "validateTicks"
  /\ C7_OrderOk /\ call.tickUpper > MAX_TICK /\ ~C7_LowerOk
  /\ ret = [valid |-> FALSE, error |-> "Ticks out of valid range"]

\* C8: for L < U, isPositionInRange(L, U, c) is true exactly when L <= c < U;
\* it is true at c = L and false at c = U.
C8_HalfOpenRange ==
  (call.op = "isPositionInRange" /\ call.tickLower < call.tickUpper) =>
    /\ ret.inRange <=> (call.tickLower <= call.currentTick
                  /\ call.currentTick < call.tickUpper)
    /\ call.currentTick = call.tickLower => ret.inRange = TRUE
    /\ call.currentTick = call.tickUpper => ret.inRange = FALSE

\* the range test was made at the upper bound of a non-empty range
C8_Witness ==
  /\ call.op = "isPositionInRange"
  /\ call.tickLower < call.tickUpper
  /\ call.currentTick = call.tickUpper
  /\ ret.inRange = FALSE

(***************************************************************************)
(* Properties of the liquidity formulas, checked under SpecLiq.            *)
(***************************************************************************)
LiqCall == call.op = "calculateLiquidityFromAmounts"

\* the current price is strictly inside the range
LiqInRange ==
  /\ DecLess(call.sqrtPriceAX96, call.sqrtPriceX96)
  /\ DecLess(call.sqrtPriceX96, call.sqrtPriceBX96)

\* the amounts recovered from the liquidity the call returned
LiqRecovered ==
  calculateAmountsFromLiquidity(call.sqrtPriceX96, call.sqrtPriceAX96,
                                call.sqrtPriceBX96, ret.liquidity)

\* C9: for sqrtPriceA < sqrtPrice < sqrtPriceB and amounts a0, a1 >= 0, the
\* amounts recovered by calculateAmountsFromLiquidity from
\* L = calculateLiquidityFromAmounts(sqrtPrice, sqrtPriceA, sqrtPriceB, a0, a1)
\* do not exceed the originals: amount0 <= a0 and amount1 <= a1.
C9_RecoveredAmountsNotAbove ==
  (LiqCall /\ LiqInRange) =>
    /\ DecLessOrEqual(LiqRecovered.amount0, call.amount0)
    /\ DecLessOrEqual(LiqRecovered.amount1, call.amount1)

\* an in-range call that returned a positive liquidity from which a positive
\* amount of token1, less than the original, is recovered
C9_Witness ==
  /\ LiqCall /\ LiqInRange
  /\ ret.liquidity # Dec(0)
  /\ LiqRecovered.amount1 # Dec(0)
  /\ DecLess(LiqRecovered.amount1, call.amount1)

\* the candidate liquidities of the in-range branch
LiqCandidate0 ==
  getLiquidityForAmount0(JsbiBigInt(call.sqrtPriceX96),
                         JsbiBigInt(call.sqrtPriceBX96), JsbiBigInt(call.amount0))
LiqCandidate1 ==
  getLiquidityForAmount1(JsbiBigInt(call.sqrtPriceAX96),
                         JsbiBigInt(call.sqrtPriceX96), JsbiBigInt(call.amount1))

\* C10: in range, calculateLiquidityFromAmounts returns the minimum of the
\* liquidity from amount0 over [sqrtPrice, sqrtPriceB] and the liquidity
\* from amount1 over [sqrtPriceA, sqrtPrice]: it is one of the two
\* candidates and exceeds neither.
C10_InRangeMinimum ==
  (LiqCall /\ LiqInRange) =>
    /\ JsbiCmp(JsbiBigInt(ret.liquidity), LiqCandidate0) <= 0
    /\ JsbiCmp(JsbiBigInt(ret.liquidity), LiqCandidate1) <= 0
    /\ ret.liquidity = JsbiToString(LiqCandidate0) \/ ret.liquidity = JsbiToString(LiqCandidate1)

\* an in-range call whose candidates differ, amount1 being the binding side
C10_Witness ==
  /\ LiqCall /\ LiqInRange
  /\ JsbiLessThan(LiqCandidate1, LiqCandidate0)
  /\ ret.liquidity = JsbiToString(LiqCandidate1)
  /\ ret.liquidity # Dec(0)

\* the current price is at or below the range
LiqBelowRange == DecLessOrEqual(call.sqrtPriceX96, call.sqrtPriceAX96)

\* amount0 * sqrtPriceA * sqrtPriceB / ((sqrtPriceB - sqrtPriceA) * Q96),
\* the exact quotient rounded down
LiqExactQuotient0 ==
  LET a == JsbiBigInt(call.sqrtPriceAX96)
      b == JsbiBigInt(call.sqrtPriceBX96)
  IN  JsbiDivide(JsbiMultiply(JsbiBigInt(call.amount0), JsbiMultiply(a, b)),
                 JsbiMultiply(JsbiSubtract(b, a), Q96))

\* amount0 * floor(sqrtPriceA * sqrtPriceB / Q96) / (sqrtPriceB - sqrtPriceA),
\* rounded down
LiqTwoStepQuotient0 ==
  LET a == JsbiBigInt(call.sqrtPriceAX96)
      b == JsbiBigInt(call.sqrtPriceBX96)
  IN  JsbiDivide(JsbiMultiply(JsbiBigInt(call.amount0),
                              JsbiDivide(JsbiMultiply(a, b), Q96)),
                 JsbiSubtract(b, a))

\* the liquidity is the same whatever amount1 is
LiqSameForEveryAmount1 ==
  \A a1 \in AmountInputs :
    calculateLiquidityFromAmounts(call.sqrtPriceX96, call.sqrtPriceAX96,
                                  call.sqrtPriceBX96, call.amount0, a1)
      = ret.liquidity

\* C11 as stated: at or below the range (sqrtPrice <= sqrtPriceA < sqrtPriceB)
\* the liquidity does not depend on amount1 and is the exact quotient
\* amount0 * sqrtPriceA * sqrtPriceB / (sqrtPriceB - sqrtPriceA) / Q96 rounded
\* down.
C11_BelowRangeExactQuotient ==
  (LiqCall /\ LiqBelowRange) =>
    /\ LiqSameForEveryAmount1
    /\ ret.liquidity = JsbiToString(LiqExactQuotient0)

\* C11 as amended: at or below the range the liquidity does not depend on
\* amount1 and is amount0 * floor(sqrtPriceA * sqrtPriceB / Q96) /
\* (sqrtPriceB - sqrtPriceA) rounded down: the product of the prices is
\* divided by Q96 first, so the result never exceeds the exact quotient and
\* can be below it.
C11_BelowRangeTwoStepQuotient ==
  (LiqCall /\ LiqBelowRange) =>
    /\ LiqSameForEveryAmount1
    /\ ret.liquidity = JsbiToString(LiqTwoStepQuotient0)
    /\ JsbiLessThanOrEqual(JsbiBigInt(ret.liquidity), LiqExactQuotient0)

\* a call below the range whose liquidity is positive, with a positive amount1
C11_Witness ==
  /\ LiqCall /\ LiqBelowRange
  /\ DecLess(call.sqrtPriceX96, call.sqrtPriceAX96)
  /\ call.amount1 # Dec(0)
  /\ ret.liquidity # Dec(0)
  /\ ret.liquidity = JsbiToString(LiqTwoStepQuotient0)

(***************************************************************************)
(* Properties of the amounts of a position, checked under SpecAmt.         *)
(***************************************************************************)
AmtCall == call.op = "calculateAmountsFromLiquidity"

\* the range is ordered
AmtOrderedRange == DecLess(call.sqrtPriceAX96, call.sqrtPriceBX96)

\* a decimal string of a number >= 0: no sign, nothing thrown
DecNonNegative(x) == x # JsbiToString(JsbiThrown) /\ x[1] # "-"

\* C12: for sqrtPriceA < sqrtPriceB and liquidity >= 0,
\* calculateAmountsFromLiquidity returns amount1 = 0 when sqrtPrice <=
\* sqrtPriceA and amount0 = 0 when sqrtPrice >= sqrtPriceB, and neither amount
\* is negative.
C12_OutOfRangeOneSided ==
  (AmtCall /\ AmtOrderedRange) =>
    /\ DecLessOrEqual(call.sqrtPriceX96, call.sqrtPriceAX96) => ret.amount1 = Dec(0)
    /\ DecLessOrEqual(call.sqrtPriceBX96, call.sqrtPriceX96) => ret.amount0 = Dec(0)
    /\ DecNonNegative(ret.amount0) /\ DecNonNegative(ret.amount1)

\* a call below the range that returned a positive amount0 and no amount1
C12_Witness ==
  /\ AmtCall /\ AmtOrderedRange
  /\ DecLess(call.sqrtPriceX96, call.sqrtPriceAX96)
  /\ ret.amount0 # Dec(0) /\ DecNonNegative(ret.amount0)
  /\ ret.amount1 = Dec(0)

\* the scenario: the range [ScenarioTickLower, ScenarioTickUpper], a positive
\* liquidity and the current price as given
AmtScenarioAt(sqrtPrice) ==
  /\ AmtCall
  /\ call.sqrtPriceX96 = sqrtPrice
  /\ call.sqrtPriceAX96 = SqrtPriceLower
  /\ call.sqrtPriceBX96 = SqrtPriceUpper
  /\ call.liquidity # Dec(0)

DecPositive(x) == DecNonNegative(x) /\ x # Dec(0)

\* C13 as stated: with the current tick above the range (200 against
\* [-100, 100]) the amounts are amount0 > 0 and amount1 = 0, and with the
\* current tick below the range (-200) they are amount0 = 0 and amount1 > 0.
C13_AboveToken0BelowToken1 ==
  /\ AmtScenarioAt(SqrtPriceAbove) =>
       DecPositive(ret.amount0) /\ ret.amount1 = Dec(0)
  /\ AmtScenarioAt(SqrtPriceBelow) =>
       ret.amount0 = Dec(0) /\ DecPositive(ret.amount1)

\* C13 as amended: with the current tick above the range (200 against
\* [-100, 100]) and a liquidity of at least 10^18 the amounts are amount0 = 0
\* and amount1 > 0 (only token1), and with the current tick below the range
\* (-200) they are amount0 > 0 and amount1 = 0 (only token0).
C13_AboveToken1BelowToken0 ==
  /\ (AmtScenarioAt(SqrtPriceAbove) /\ call.liquidity # Dec(1)) =>
       ret.amount0 = Dec(0) /\ DecPositive(ret.amount1)
  /\ (AmtScenarioAt(SqrtPriceBelow) /\ call.liquidity # Dec(1)) =>
       DecPositive(ret.amount0) /\ ret.amount1 = Dec(0)

\* the scenario above the range was computed and gave token1 only
C13_Witness ==
  /\ AmtScenarioAt(SqrtPriceAbove)
  /\ call.liquidity # Dec(1)
  /\ ret.amount0 = Dec(0) /\ DecPositive(ret.amount1)

(***************************************************************************)
(* Mismatched ranges, checked under SpecMismatch.                          *)
(***************************************************************************)
\* the decimal string position of a call that threw
DecThrown == JsbiToString(JsbiThrown)

\* C14: whenever sqrtPriceA >= sqrtPriceB, calculateLiquidityFromAmounts and
\* calculateAmountsFromLiquidity end in an error and return no liquidity and
\* no amounts.
C14_MismatchedRangeRejected ==
  /\ (LiqCall /\ ~DecLess(call.sqrtPriceAX96, call.sqrtPriceBX96)) =>
       ret.liquidity = DecThrown
  /\ (AmtCall /\ ~AmtOrderedRange) =>
       ret.amount0 = DecThrown /\ ret.amount1 = DecThrown

(***************************************************************************)
(* Properties of the uncollected fees, checked under SpecFees.             *)
(***************************************************************************)
FeesCall == call.op = "calculateFees"

\* fees is the quotient of (feeGrowth - feeGrowthLast) * liquidity by 2^128
\* rounded down, for decimal strings with feeGrowth >= feeGrowthLast
IsFeeQuotient(fees, feeGrowth, feeGrowthLast, liquidity) ==
  LET product == JsbiMultiply(JsbiSubtract(JsbiBigInt(feeGrowth),
                                           JsbiBigInt(feeGrowthLast)),
                              JsbiBigInt(liquidity))
      f == JsbiBigInt(fees)
  IN  /\ DecNonNegative(fees)
      /\ JsbiLessThanOrEqual(JsbiMultiply(f, Q128), product)
      /\ JsbiLessThan(product, JsbiMultiply(JsbiAdd(f, JsbiOfInt(1)), Q128))

\* C15: for each token i, whenever feeGrowthInsideI >= feeGrowthInsideILast
\* (and whatever the accumulators of the other token are), fees_i is
\* (feeGrowthInsideI - feeGrowthInsideILast) * liquidity / 2^128 rounded down
\* and is not negative; the difference is not reduced modulo 2^256.
C15_FeesPerToken ==
  FeesCall =>
    /\ DecLessOrEqual(call.feeGrowthInside0LastX128, call.feeGrowthInside0X128) =>
         IsFeeQuotient(ret.fees0, call.feeGrowthInside0X128,
                       call.feeGrowthInside0LastX128, call.liquidity)
    /\ DecLessOrEqual(call.feeGrowthInside1LastX128, call.feeGrowthInside1X128) =>
         IsFeeQuotient(ret.fees1, call.feeGrowthInside1X128,
                       call.feeGrowthInside1LastX128, call.liquidity)

\* fees of token1 from a difference of 2^256 while the snapshot of token0 is
\* ahead of its accumulator: the fees are 2^128 * liquidity, not 0
C15_Witness ==
  /\ FeesCall
  /\ call.feeGrowthInside1X128 = JsbiToString(Q256)
  /\ call.feeGrowthInside1LastX128 = Dec(0)
  /\ DecLess(call.feeGrowthInside0X128, call.feeGrowthInside0LastX128)
  /\ call.liquidity # Dec(0)
  /\ ret.fees1 = JsbiToString(JsbiMultiply(Q128, JsbiBigInt(call.liquidity)))

(***************************************************************************)
(* Unknown fee tiers, checked under SpecTier.                              *)
(***************************************************************************)
\* the functions that build a range for a fee tier
RangeOfTierCall ==
  call.op \in {"calculateTickRange", "getFullRangeTicks", "getTicksFromPriceRange",
               "suggestTickRange"}

\* C16: getTickSpacing returns 1, 10, 60 and 200 for the fee tiers 100, 500,
\* 3000 and 10000 and fails with an error, never a spacing, for every other
\* fee; calculateTickRange, getFullRangeTicks, getTicksFromPriceRange and
\* suggestTickRange then fail with that error and return no range.
C16_UnknownTierFails ==
  /\ call.op = "getTickSpacing" =>
       /\ call.fee = 100 => ret = [threw |-> FALSE, tickSpacing |-> 1]
       /\ call.fee = 500 => ret = [threw |-> FALSE, tickSpacing |-> 10]
       /\ call.fee = 3000 => ret = [threw |-> FALSE, tickSpacing |-> 60]
       /\ call.fee = 10000 => ret = [threw |-> FALSE, tickSpacing |-> 200]
       /\ call.fee \notin {100, 500, 3000, 10000} =>
            ret = [threw |-> TRUE, error |-> "Invalid fee tier", fee |-> call.fee]
  /\ (RangeOfTierCall /\ call.feeTier \notin {100, 500, 3000, 10000}) =>
       ret = [threw |-> TRUE, error |-> "Invalid fee tier", fee |-> call.feeTier]

\* calculateTickRange was called with a fee that is no tier and threw
C16_Witness ==
  /\ call.op = "calculateTickRange"
  /\ call.feeTier \notin {100, 500, 3000, 10000}
  /\ ret.threw /\ ret.error = "Invalid fee tier"

(***************************************************************************)
(* Degenerate inputs of the number-valued functions, checked under SpecNum.*)
(***************************************************************************)
\* the price of a priceToTick call is zero or negative
PriceNotPositive == call.price.num.neg \/ call.price.num.mag = <<>>

\* C17: priceToTick fails with an invalid-input error for every price <= 0
\* and returns no number for it.
C17_NonPositivePriceRejected ==
  (call.op = "priceToTick" /\ PriceNotPositive) => ret.kind = "Error"

\* C18: capitalEfficiency(tickLower, tickUpper) is
\* (MAX_TICK - MIN_TICK) / (tickUpper - tickLower) for tickLower < tickUpper,
\* and fails with an error, returning no value, for tickLower = tickUpper.
C18_EfficiencyRatioOrError ==
  call.op = "capitalEfficiency" =>
    /\ call.tickLower < call.tickUpper =>
         JsIsQuotient(ret, 887272 - (-887272), call.tickUpper - call.tickLower)
    /\ call.tickLower = call.tickUpper => ret.kind = "Error"

\* C18 (as the code has it): capitalEfficiency(tickLower, tickUpper) is
\* (MAX_TICK - MIN_TICK) / (tickUpper - tickLower) for tickLower < tickUpper,
\* and for tickLower = tickUpper the call does not fail: it returns Infinity.
C18_EfficiencyRatioOrInfinity ==
  call.op = "capitalEfficiency" =>
    /\ call.tickLower < call.tickUpper =>
         JsIsQuotient(ret, 887272 - (-887272), call.tickUpper - call.tickLower)
    /\ call.tickLower = call.tickUpper => ret = [kind |-> "Infinity"]

\* capitalEfficiency was called on a zero-width range and returned Infinity
C18_Witness ==
  /\ call.op = "capitalEfficiency"
  /\ call.tickLower = call.tickUpper
  /\ ret.kind = "Infinity"

\* C19: estimateAPR returns 0 for tvl = 0 whatever fees24h is, and
\* fees24h / tvl * 365 * 100 for every other tvl.
C19_AprZeroTvlGuard ==
  call.op = "estimateAPR" =>
    /\ call.tvl = 0 => JsIsQuotient(ret, 0, 1)
    /\ call.tvl # 0 => JsIsQuotient(ret, call.fees24h * 365 * 100, call.tvl)

\* estimateAPR(1000, 0) returned 0
C19_Witness ==
  /\ call.op = "estimateAPR"
  /\ call.fees24h = 1000 /\ call.tvl = 0
  /\ ret.kind = "finite" /\ ret.num = 0

(***************************************************************************)
(* The confidence level of suggestTickRange, checked under Spec.           *)
(***************************************************************************)
\* the ranges around the current tick of the call that a z-score of
\* zMilli / 1000 can give
RangeForZScore(zMilli) ==
  {[tickLower |-> nearestUsableTick(call.currentTick - tickMove, FEE_TIERS[call.feeTier]),
    tickUpper |-> nearestUsableTick(call.currentTick + tickMove, FEE_TIERS[call.feeTier])]
     : tickMove \in tickMoveOf(call.volatilityBps * SqrtDays(call.holdingPeriodDays)
                                 * zMilli)}

\* C20: suggestTickRange rejects no confidence level: for a level other than
\* 0.90, 0.95 and 0.99 it returns what it returns for 0.95 with the same
\* currentTick, volatility, holdingPeriodDays and feeTier (z-score 1.96), and
\* for 0.90 and 0.99 it uses the z-scores 1.645 and 2.576.
C20_UnknownConfidenceAs95 ==
  call.op = "suggestTickRange" =>
    /\ call.confidencePct \notin {90, 95, 99} =>
         /\ suggestTickRange(call.currentTick, call.volatilityBps,
                             call.holdingPeriodDays, call.confidencePct, call.feeTier)
              = suggestTickRange(call.currentTick, call.volatilityBps,
                                 call.holdingPeriodDays, 95, call.feeTier)
         /\ ret \in RangeForZScore(1960)
    /\ call.confidencePct = 90 => ret \in RangeForZScore(1645)
    /\ call.confidencePct = 99 => ret \in RangeForZScore(2576)

\* a call with confidence level 0.80, where the z-scores 1.645, 1.96 and
\* 2.576 give tick moves of 6, 7 and 10, returned the range of 1.96
C20_Witness ==
  /\ call.op = "suggestTickRange"
  /\ call.confidencePct = 80
  /\ call.currentTick = 0 /\ call.volatilityBps = 2 /\ call.holdingPeriodDays = 4
  /\ call.feeTier = 100
  /\ ret = [tickLower |-> -7, tickUpper |-> 7]

(***************************************************************************)
(* The conversions at and around tick 0, checked under SpecConv.           *)
(***************************************************************************)
\* p < q for two prices with positive denominators
PriceLess(p, q) ==
  JsbiLessThan(JsbiMultiply(p.num, q.den), JsbiMultiply(q.num, p.den))

\* the price is exactly 1
PriceIsOne(p) == p.num = p.den

\* C21: tickToPrice(0) is exactly 1, priceToTick(1) is exactly 0,
\* tickToSqrtPriceX96(0) is exactly 79228162514264337593543950336 (2^96) and
\* sqrtPriceX96ToTick(2^96) is exactly 0.
C21_ZeroPointExact ==
  /\ (call.op = "tickToPrice" /\ call.tick = 0) =>
       PriceIsOne(ret.price.lo) /\ PriceIsOne(ret.price.hi)
  /\ (call.op = "priceToTick" /\ PriceIsOne(call.price)) =>
       ret = [kind |-> "finite", int |-> 0]
  /\ (call.op = "tickToSqrtPriceX96" /\ call.tick = 0) =>
       /\ ~ret.threw
       /\ ret.atLeast = JsbiToString(JsbiExponentiate(JsbiOfInt(2), 96))
       /\ ret.atMost = JsbiToString(JsbiExponentiate(JsbiOfInt(2), 96))
  /\ (call.op = "sqrtPriceX96ToTick"
        /\ call.sqrtPriceX96 = JsbiToString(JsbiExponentiate(JsbiOfInt(2), 96))) =>
       ret = [kind |-> "finite", int |-> 0]

\* C22: tickToPrice is strictly increasing: tickToPrice(t1) < tickToPrice(t2)
\* for all ticks t1 < t2, whatever doubles the two calls return within their
\* rounding errors.
C22_TickToPriceIncreasing ==
  (call.op = "tickToPrice twice" /\ call.tick1 < call.tick2) =>
    PriceLess(ret.price1.hi, ret.price2.lo)

\* the prices of a negative and of a positive tick were compared
C22_Witness ==
  /\ call.op = "tickToPrice twice"
  /\ call.tick1 < 0 /\ 0 < call.tick2
  /\ PriceLess(ret.price1.hi, ret.price2.lo)

(***************************************************************************)
(* The encoding of swap paths, checked under SpecPath.                     *)
(***************************************************************************)
\* each hop starts at the token the hop before it ends at
PathContinuous(path) ==
  \A i \in 2 .. Len(path) : path[i].tokenIn = path[i - 1].tokenOut

\* C23: for every non-empty continuous path of hops with 20-byte hex
\* addresses and fees in [0, 2^24), decodePath(encodePath(path)) has as many
\* hops as the path, with the same fees and the lower-cased tokenIn and
\* tokenOut of the path, in the same order.
C23_PathRoundTrip ==
  (call.op = "decodePath(encodePath)" /\ Len(call.path) > 0
     /\ PathContinuous(call.path)) =>
    /\ ~ret.threw
    /\ Len(ret.decoded) = Len(call.path)
    /\ \A i \in 1 .. Len(call.path) :
         /\ ret.decoded[i].fee = call.path[i].fee
         /\ ret.decoded[i].tokenIn = toLowerCase(call.path[i].tokenIn)
         /\ ret.decoded[i].tokenOut = toLowerCase(call.path[i].tokenOut)

\* a continuous path of two hops with different fees came back from the
\* decoding with its two hops
C23_Witness ==
  /\ call.op = "decodePath(encodePath)"
  /\ Len(call.path) = 2 /\ PathContinuous(call.path)
  /\ call.path[1].fee = 3000 /\ call.path[2].fee = 500
  /\ call.path[1].tokenIn # call.path[2].tokenOut
  /\ ~ret.threw
  /\ Len(ret.decoded) = 2
  /\ ret.decoded[2].fee = 500

(***************************************************************************)
(* The polling trigger, checked under SpecTrigger.                         *)
(***************************************************************************)
\* a poll has ended and its result was not taken yet
PollEnded == call.op = "poll" /\ call.at = "done"
PollDone == PollEnded /\ ~ret.threw
PollThrew == PollEnded /\ ret.threw

\* the events a poll that has ended handed to the workflow: none when it
\* threw
Returned == IF ret.threw THEN <<>> ELSE ret.events

\* a poll of the price watch for a pool that the subgraph has
PricePollEnded ==
  /\ PollEnded
  /\ params.eventType = "price"
  /\ params.poolAddress # ""
  /\ subgraph.pool.found

\* Math.abs((currentPrice - lastPrice) / lastPrice * 100) >= priceThreshold
\* as a comparison of doubles: a division by 0 gives Infinity, or NaN for
\* 0 / 0; (129 - 100) / 100 * 100 is 28.999999999999996, below 29
ChangeAtLeast(currentPrice, lastPrice, priceThreshold) ==
  IF lastPrice = 0 THEN currentPrice # 0
  ELSE JsbiLessThanOrEqual(JsbiMultiply(JsbiOfInt(priceThreshold),
                                        PercentChange(lastPrice, currentPrice).den),
                           PercentChange(lastPrice, currentPrice).num)

\* C25: a poll of event type 'price' emits a price-change event exactly when
\* a previous price is stored and abs((currentPrice - lastPrice) / lastPrice
\* * 100) >= priceThreshold; every poll that finds the pool stores
\* currentPrice as lastPrice, emitting or not, so the first poll never emits
\* and a comparison is against the price of the poll before.
C25_EmitsOnStoredPrice ==
  PricePollEnded =>
    /\ Len(Returned) > 0 <=>
         /\ call.before.lastPrice # Undefined
         /\ ChangeAtLeast(subgraph.pool.token0Price, call.before.lastPrice,
                          params.priceThreshold)
    /\ webhookData.lastPrice = subgraph.pool.token0Price

\* C26: a poll that ends without error stores its current time as
\* lastTimestamp, also when it returns null; a poll that fails (client
\* creation or a query) raises an error and leaves the stored lastTimestamp
\* as it was, so the poll after a failed one queries from the same lower
\* bound as the failed one.
C26_TimestampOnlyOnCompletedPoll ==
  /\ PollDone => webhookData.lastTimestamp = call.currentTimestamp
  /\ PollThrew => webhookData.lastTimestamp = call.before.lastTimestamp
  /\ (call.op = "poll" /\ call.previous.polled /\ call.previous.threw) =>
       call.lastTimestamp = call.previous.lastTimestamp

\* C26 (as the code has it): as above, but the poll after a failed one
\* queries from the same lower bound only if a lastTimestamp had been stored;
\* before the first completed poll the lower bound is the time at which the
\* poll reads the clock less 300 seconds, and moves with the clock.
C26_SameLowerBoundOnceStored ==
  /\ PollDone => webhookData.lastTimestamp = call.currentTimestamp
  /\ PollThrew => webhookData.lastTimestamp = call.before.lastTimestamp
  /\ (call.op = "poll" /\ call.previous.polled /\ call.previous.threw) =>
       IF call.before.lastTimestamp # Undefined
         THEN call.lastTimestamp = call.previous.lastTimestamp
         ELSE call.lastTimestamp = call.startedAt - 300

\* a poll failed at its client and left the static data as it was; the poll
\* after it, a second later with still nothing stored, has failed too, and
\* its lower bound was a second later than that of the first
C26_Witness ==
  /\ PollThrew
  /\ ret.error = "Failed to initialize client"
  /\ call.previous.polled /\ call.previous.threw
  /\ call.before.lastTimestamp = Undefined
  /\ webhookData.lastTimestamp = Undefined
  /\ call.lastTimestamp = call.previous.lastTimestamp + 1

\* a poll of the positions of the owner
PositionsPollEnded == PollEnded /\ params.eventType = "positions"

\* the ids in a list of positions
PositionIds(positions) == {positions[i].id : i \in 1 .. Len(positions)}

\* C28: a poll of event type 'positions' emits a position exactly when its
\* id is not in the snapshot of the previous successful poll ('new') or its
\* liquidity, collectedFeesToken0 or collectedFeesToken1 differs from the
\* snapshot's ('updated'); afterwards the snapshot is the list just fetched,
\* so a poll over unchanged data emits nothing and the first poll emits
\* every position as 'new'.
C28_PositionsDiffAgainstSnapshot ==
  PositionsPollEnded =>
    LET fetched == PositionsQuery
        last == call.before.lastPositions
        IsNew(p) == p.id \notin PositionIds(last)
        IsUpdated(p) ==
          \E i \in 1 .. Len(last) :
            /\ last[i].id = p.id
            /\ \/ last[i].liquidity # p.liquidity
               \/ last[i].collectedFeesToken0 # p.collectedFeesToken0
               \/ last[i].collectedFeesToken1 # p.collectedFeesToken1
    IN  /\ PositionIds(Returned) = {p.id : p \in {q \in Range(fetched) : IsNew(q) \/ IsUpdated(q)}}
        /\ Len(Returned) = Cardinality(PositionIds(Returned))
        /\ \A i \in 1 .. Len(Returned) :
             \E p \in Range(fetched) :
               /\ p.id = Returned[i].id
               /\ Returned[i].liquidity = p.liquidity
               /\ Returned[i].changeType = IF IsNew(p) THEN "new" ELSE "updated"
        /\ webhookData.lastPositions = fetched
        /\ last = fetched => Len(Returned) = 0
        /\ last = <<>> => Len(Returned) = Len(fetched)

(***************************************************************************)
(* Uniswap.execute, checked under SpecExecute.                             *)
(***************************************************************************)
\* execute has ended and its result was not taken yet
ExecuteDone == call.op = "execute" /\ call.at = "done"

\* item i (from 1) throws, and its message
ItemThrows(i) == call.resource \notin Resources \/ call.items[i].fails
ItemMessage(i) ==
  IF call.resource \notin Resources THEN "Unknown resource: " \o call.resource
  ELSE call.items[i].message

\* continueOnFail() answered true, or false, every time it was asked
ContinueOnFailEnabled == \A k \in 1 .. Len(call.asked) : call.asked[k].answer
ContinueOnFailDisabled == \A k \in 1 .. Len(call.asked) : ~call.asked[k].answer

\* C29: with continueOnFail, for n input items whose action returns one
\* output each, the output has exactly n entries in input order, entry i
\* being the result of item i or {error: message} paired to item i, so the
\* items after a failing one are processed; without continueOnFail the first
\* failing item aborts the execution with its error and nothing is returned.
C29_ItemFailuresIsolated ==
  ExecuteDone =>
    LET n == Len(call.items)
        OneEach == \A i \in 1 .. n : ItemThrows(i) \/ call.items[i].outputs = 1
        Failing == {i \in 1 .. n : ItemThrows(i)}
    IN  /\ (ContinueOnFailEnabled /\ OneEach) =>
             /\ ~ret.threw
             /\ Len(ret.returnData) = n
             /\ \A i \in 1 .. n :
                  ret.returnData[i] =
                    IF ItemThrows(i)
                      THEN [json |-> [error |-> ItemMessage(i)],
                            pairedItem |-> [item |-> i - 1]]
                      ELSE [json |-> [item |-> i - 1, output |-> 1]]
        /\ (ContinueOnFailDisabled /\ Failing # {}) =>
             /\ ret.threw
             /\ \E i \in Failing :
                  /\ \A j \in Failing : i <= j
                  /\ ret.error = ItemMessage(i)
             /\ "returnData" \notin DOMAIN ret
        /\ Failing = {} => ~ret.threw

\* of three items the second failed while it was awaited, continueOnFail()
\* answered true, and the output has the result of the first, the error of
\* the second and the result of the third
C29_Witness ==
  /\ ExecuteDone
  /\ call.asked = <<[item |-> 1, answer |-> TRUE]>>
  /\ call.resource \in Resources
  /\ Len(call.items) = 3
  /\ ~call.items[1].fails /\ call.items[2].fails /\ ~call.items[3].fails
  /\ ~ret.threw
  /\ Len(ret.returnData) = 3
  /\ ret.returnData[2].json = [error |-> call.items[2].message]
  /\ ret.returnData[3].json = [item |-> 2, output |-> 1]

(***************************************************************************)
(* concentrationFactor, checked under SpecConc.                            *)
(***************************************************************************)
\* C30: for tickLower < tickUpper and every currentTick,
\* concentrationFactor(tickLower, tickUpper, currentTick) is 0 exactly when
\* isPositionInRange(tickLower, tickUpper, currentTick) is false, and is
\* (MAX_TICK - MIN_TICK) / (tickUpper - tickLower) otherwise.
C30_FactorZeroIffOutOfRange ==
  (call.op = "concentrationFactor" /\ call.tickLower < call.tickUpper) =>
    /\ JsIsQuotient(ret.factor, 0, 1) <=> ~ret.inRange
    /\ ret.inRange =>
         JsIsQuotient(ret.factor, 887272 - (-887272), call.tickUpper - call.tickLower)

=============================================================================
